---- MODULE Spec2Model ----
(***************************************************************************)
(* Resumable streaming ingestion pipeline of openalex-gcp-ingestion:       *)
(* the checkpoint store (scripts/etl/utils/state_manager.py), the          *)
(* enumerate/fetch loop (scripts/etl/download/streaming_downloader.py),    *)
(* the buffered multi-table loader                                         *)
(* (scripts/etl/transform/streaming_processor.py) and the two drivers      *)
(* (scripts/etl/run_streaming_etl.py, streaming_downloader.main).          *)
(***************************************************************************)
EXTENDS Integers, Sequences, FiniteSets, TLC

(***************************************************************************)
(* Bounds of the model.                                                    *)
(***************************************************************************)
\* number of process starts (runs of a driver) in one behaviour
MaxRuns == 3
\* number of injected collaborator faults (S3, database, checkpoint I/O)
MaxFaults == 2
\* StreamingProcessor(batch_size=...), scaled down from 1000
batch_size == 2
\* StreamingProcessor(max_errors=...), scaled down from 100
max_errors == 2

(***************************************************************************)
(* The remote corpus: entity types in processing order, the newest         *)
(* partition of each and the lines of each compressed file.                *)
(***************************************************************************)
entity_types == <<"works", "authors">>

Entities == {entity_types[i] : i \in 1..Len(entity_types)}

\* the partition get_latest_date_folder selects when the listing succeeds
latest_folder == "updated_date=2024-02-01/"

\* `aws s3 ls` of the newest partition, in listing order
S3Files(entity_type) ==
    IF entity_type = "works" THEN <<"a.gz", "b.gz">> ELSE <<"c.gz", "d.gz">>

\* one line of a file: a record that normalizes, a line json.loads rejects,
\* or valid JSON on which the entity processor raises internally
Rec(i, v) == [kind |-> "rec", id |-> i, val |-> v]
BadJson == [kind |-> "badjson", id |-> 0, val |-> 0]
BadRec == [kind |-> "badrec", id |-> 0, val |-> 0]

FileLines(name) ==
    CASE name = "a.gz" -> <<Rec(1, 1), BadRec, BadRec>>
      [] name = "b.gz" -> <<Rec(1, 2), Rec(2, 1), Rec(3, 1)>>
      [] name = "c.gz" -> <<BadJson, Rec(4, 1)>>
      [] OTHER         -> <<BadJson, BadJson, Rec(5, 1)>>

\* file_info['full_path'] = f"{latest_folder}{file_name}", the idempotency key
full_path(folder, name) == <<folder, name>>

NoFile == <<"", "">>

Range(s) == {s[i] : i \in 1..Len(s)}

(***************************************************************************)
(* Checkpoint store (StateManager).                                        *)
(***************************************************************************)
\* an entity-state dict; `present` is "entity_type in state['entities']",
\* a missing key reads as "none" / NoFile / <<>>
AbsentEntity ==
    [present |-> FALSE, status |-> "none", current_file |-> NoFile,
     completed_files |-> <<>>]

InitialState ==
    [entities |-> [e \in Entities |-> AbsentEntity],
     total_processed |-> [e \in Entities |-> 0],
     error_log |-> <<>>]

\* contents of a file on disk
Json(state) == [kind |-> "json", doc |-> state]
AbsentFile == [kind |-> "absent", doc |-> InitialState]
CorruptFile == [kind |-> "corrupt", doc |-> InitialState]

\* _backup_state then the primary write; outcome "ioerror": both open()
\* calls raise IOError, which is logged and swallowed; outcome "torn": the
\* process dies after the primary was truncated and before json.dump ended
_save_state(state, sf, bk, outcome) ==
    CASE outcome = "ok" -> [state_file |-> Json(state), backups |-> Json(state)]
      [] outcome = "torn" -> [state_file |-> CorruptFile, backups |-> Json(state)]
      [] OTHER -> [state_file |-> sf, backups |-> bk]

_create_initial_state(sf, bk) ==
    LET w == _save_state(InitialState, sf, bk, "ok")
    IN  [state |-> InitialState, state_file |-> w.state_file, backups |-> w.backups]

\* backups[-1] is the newest snapshot; it is copied over the primary
_restore_from_backup(sf, bk) ==
    IF bk.kind = "absent" THEN _create_initial_state(sf, bk)
    ELSE IF bk.kind = "json"
         THEN [state |-> bk.doc, state_file |-> bk, backups |-> bk]
         ELSE _create_initial_state(sf, bk)

_load_state(sf, bk) ==
    IF sf.kind = "absent" THEN _create_initial_state(sf, bk)
    ELSE IF sf.kind = "json"
         THEN [state |-> sf.doc, state_file |-> sf, backups |-> bk]
         ELSE _restore_from_backup(sf, bk)

\* the entity dict after "if entity_type not in state['entities']: ... = {}"
EnsureEntity(state, e) ==
    [state.entities[e] EXCEPT !.present = TRUE]

\* a save_state that records the status and forgets the file
save_state_without_file(sf, bk, e, cur, status, outcome) ==
    LET l == _load_state(sf, bk)
        ent == [EnsureEntity(l.state, e) EXCEPT !.status = status]
        st == [l.state EXCEPT !.entities[e] = ent]
    IN  _save_state(st, l.state_file, l.backups, outcome)

\* save_state between its load and its save
save_state_update(state, e, cur, status) ==
    [state EXCEPT !.entities[e] =
        [EnsureEntity(state, e) EXCEPT !.current_file = cur, !.status = status]]

save_state(sf, bk, e, cur, status, outcome) ==
    LET l == _load_state(sf, bk)
    IN  _save_state(save_state_update(l.state, e, cur, status),
                    l.state_file, l.backups, outcome)

\* mark_file_complete between its load and its save
mark_file_complete_update(state, e, path) ==
    LET ent0 == EnsureEntity(state, e)
        ent == IF path \in Range(ent0.completed_files) THEN ent0
               ELSE [ent0 EXCEPT !.completed_files = Append(@, path)]
    IN  [state EXCEPT !.entities[e] = ent, !.total_processed[e] = @ + 1]

mark_file_complete(sf, bk, e, path, outcome) ==
    LET l == _load_state(sf, bk)
    IN  _save_state(mark_file_complete_update(l.state, e, path),
                    l.state_file, l.backups, outcome)

\* mark_entity_complete between its load and its save
mark_entity_complete_update(state, e) ==
    [state EXCEPT !.entities[e] = [EnsureEntity(state, e) EXCEPT !.status = "completed"]]

mark_entity_complete(sf, bk, e, outcome) ==
    LET l == _load_state(sf, bk)
    IN  _save_state(mark_entity_complete_update(l.state, e),
                    l.state_file, l.backups, outcome)

\* a reset_entity that deletes the entity and leaves its count
reset_entity_update_keeps_count(state, e) ==
    [state EXCEPT !.entities[e] = AbsentEntity]

\* reset_entity between its load and its save: the entity is deleted from
\* state['entities'] and its count is set to 0
reset_entity_update(state, e) ==
    [state EXCEPT !.entities[e] = AbsentEntity, !.total_processed[e] = 0]

\* state['error_log'][-100:], the bound scaled down from 100
error_log_limit == 3

\* the last n elements of a list: s[-n:]
LastN(s, n) == IF Len(s) <= n THEN s ELSE SubSeq(s, Len(s) - n + 1, Len(s))

\* a log_error that only appends
log_error_update_unbounded(state, e, error_message, timestamp) ==
    [state EXCEPT !.error_log =
        Append(@, [timestamp |-> timestamp, entity_type |-> e,
                   error_message |-> error_message])]

\* log_error between its load and its save
log_error_update(state, e, error_message, timestamp) ==
    LET error_entry == [timestamp |-> timestamp, entity_type |-> e,
                        error_message |-> error_message]
    IN  [state EXCEPT !.error_log = LastN(Append(@, error_entry), error_log_limit)]

is_file_processed(sf, bk, e, path) ==
    LET st == _load_state(sf, bk).state
    IN  st.entities[e].present /\ path \in Range(st.entities[e].completed_files)

\* an is_entity_completed that never says yes
is_entity_completed_never(sf, bk, e) == FALSE

is_entity_completed(sf, bk, e) ==
    LET st == _load_state(sf, bk).state
    IN  st.entities[e].present /\ st.entities[e].status = "completed"

\* summary['entities']: only the entities present, status defaulting to
\* 'not_started'
get_state_summary(sf, bk) ==
    LET st == _load_state(sf, bk).state
    IN  [e \in Entities |->
            [present |-> st.entities[e].present,
             status |-> IF st.entities[e].status = "none" THEN "not_started"
                        ELSE st.entities[e].status,
             completed_files_count |-> Len(st.entities[e].completed_files)]]

(***************************************************************************)
(* Batch loader (StreamingProcessor) and the entity processors.            *)
(***************************************************************************)
\* the keys of current_batches that the modelled entity types use
BatchKeys == {"main", "ids", "open_access", "counts_by_year"}

EmptyBatches == [k \in BatchKeys |-> <<>>]

\* _collect_batches: entity_batch_mapping, (batch_key, data_key) in order
entity_batch_mapping(entity_type) ==
    IF entity_type = "works"
    THEN <<(<<"main", "works">>), (<<"open_access", "works_open_access">>),
           (<<"counts_by_year", "works_counts_by_year">>)>>
    ELSE <<(<<"main", "authors">>), (<<"ids", "authors_ids">>),
           (<<"counts_by_year", "authors_counts_by_year">>)>>

\* load_batches: table_mapping[entity_type].items(), (batch_key, table)
table_mapping(entity_type) ==
    IF entity_type = "works"
    THEN <<(<<"main", "works">>), (<<"open_access", "works_open_access">>),
           (<<"counts_by_year", "works_counts_by_year">>)>>
    ELSE <<(<<"main", "authors">>), (<<"ids", "authors_ids">>),
           (<<"counts_by_year", "authors_counts_by_year">>)>>

Tables ==
    {"works", "works_open_access", "works_counts_by_year",
     "authors", "authors_ids", "authors_counts_by_year"}

EmptyDb == [t \in Tables |-> <<>>]

\* a row: `key` is its projection on the conflict target of its table (id,
\* <entity>_id, or every non-metric column), `val` the remaining columns
Row(k, v) == [key |-> k, val |-> v]

\* EntityProcessors.process_works / process_authors on a parsed line: the
\* whole body is inside try/except, so a failure is logged there and None
\* is returned (ok = FALSE); works_biblio is a data key no mapping names
processor(entity_type, line) ==
    IF line.kind # "rec" THEN [ok |-> FALSE, data |-> <<>>]
    ELSE IF entity_type = "works"
    THEN [ok |-> TRUE,
          data |-> [works |-> [is_list |-> FALSE, rows |-> <<Row(<<line.id>>, line.val)>>],
                    works_open_access |->
                        [is_list |-> FALSE, rows |-> <<Row(<<line.id>>, line.val)>>],
                    works_biblio |->
                        [is_list |-> FALSE, rows |-> <<Row(<<line.id>>, line.val)>>],
                    works_counts_by_year |->
                        [is_list |-> TRUE, rows |-> <<Row(<<line.id, 2024>>, line.val)>>]]]
    ELSE [ok |-> TRUE,
          data |-> [authors |-> [is_list |-> FALSE, rows |-> <<Row(<<line.id>>, line.val)>>],
                    authors_ids |->
                        [is_list |-> FALSE, rows |-> <<Row(<<line.id>>, line.val)>>],
                    authors_counts_by_year |->
                        [is_list |-> TRUE, rows |-> <<Row(<<line.id, 2024>>, line.val)>>]]]

\* a _collect_batches that appends a list as one element
_collect_batches_nested(entity_type, processed_data, batches) ==
    LET m == entity_batch_mapping(entity_type)
        add(k) ==
            IF \E i \in 1..Len(m) : m[i][1] = k /\ m[i][2] \in DOMAIN processed_data
            THEN LET i == CHOOSE j \in 1..Len(m) :
                              m[j][1] = k /\ m[j][2] \in DOMAIN processed_data
                     v == processed_data[m[i][2]]
                 IN  IF v.is_list THEN Append(batches[k], v.rows)
                     ELSE batches[k] \o v.rows
            ELSE batches[k]
    IN  [k \in BatchKeys |-> add(k)]

\* for every (batch_key, data_key) of the entity type whose data_key is in
\* processed_data: extend by a list, append a single row that is not empty;
\* a data key that the mapping does not name is never looked at
_collect_batches(entity_type, processed_data, batches) ==
    LET m == entity_batch_mapping(entity_type)
        add(k) ==
            IF \E i \in 1..Len(m) : m[i][1] = k /\ m[i][2] \in DOMAIN processed_data
            THEN LET i == CHOOSE j \in 1..Len(m) :
                              m[j][1] = k /\ m[j][2] \in DOMAIN processed_data
                     v == processed_data[m[i][2]]
                 IN  IF v.is_list THEN batches[k] \o v.rows
                     ELSE IF v.rows # <<>> THEN Append(batches[k], v.rows[1])
                     ELSE batches[k]
            ELSE batches[k]
    IN  [k \in BatchKeys |-> add(k)]

HasKey(table, k) == \E i \in 1..Len(table) : table[i].key = k

\* INSERT ... ON CONFLICT (target) DO UPDATE SET every other column
Upsert(table, row) ==
    IF HasKey(table, row.key)
    THEN [i \in 1..Len(table) |-> IF table[i].key = row.key THEN row ELSE table[i]]
    ELSE Append(table, row)

\* INSERT ... ON CONFLICT DO NOTHING: a conflict exists only where the
\* table carries a unique constraint
InsertOrIgnore(table, row, unique) ==
    IF unique /\ HasKey(table, row.key) THEN table ELSE Append(table, row)

RECURSIVE execute_values(_, _, _, _)
\* one statement of load_batches: the branch is chosen by batch_key
execute_values(table, batch_key, rows, unique) ==
    IF rows = <<>> THEN table
    ELSE LET t == IF batch_key \in {"main", "ids", "geo", "counts_by_year",
                                    "authorships", "related_works",
                                    "referenced_works", "concepts",
                                    "associated_institutions"}
                  THEN Upsert(table, Head(rows))
                  ELSE InsertOrIgnore(table, Head(rows), unique)
         IN  execute_values(t, batch_key, Tail(rows), unique)

RECURSIVE NStatements(_, _)
\* the number of statements a flush executes: one per non-empty batch
NStatements(tm, batches) ==
    IF tm = <<>> THEN 0
    ELSE (IF batches[Head(tm)[1]] = <<>> THEN 0 ELSE 1) + NStatements(Tail(tm), batches)

RECURSIVE ExecuteAll(_, _, _, _, _)
\* the cursor loop and the commit inside the open transaction `txn`;
\* fail_at = k > 0: the k-th database call of the flush raises
ExecuteAll(txn, tm, batches, fail_at, unique) ==
    IF tm = <<>> THEN [db |-> txn, raised |-> fail_at = 1]
    ELSE IF batches[Head(tm)[1]] = <<>>
         THEN ExecuteAll(txn, Tail(tm), batches, fail_at, unique)
         ELSE IF fail_at = 1 THEN [db |-> txn, raised |-> TRUE]
              ELSE ExecuteAll(
                     [txn EXCEPT ![Head(tm)[2]] =
                          execute_values(@, Head(tm)[1], batches[Head(tm)[1]], unique)],
                     Tail(tm), batches,
                     IF fail_at = 0 THEN 0 ELSE fail_at - 1, unique)

\* a connection in autocommit mode: the statements before the failing one stay
load_batches_autocommit(entity_type, database, batches, fail_at, unique) ==
    LET r == ExecuteAll(database, table_mapping(entity_type), batches, fail_at, unique)
    IN  [ok |-> ~r.raised, db |-> r.db]

\* commit on success, rollback and False on any exception
load_batches(entity_type, database, batches, fail_at, unique) ==
    LET r == ExecuteAll(database, table_mapping(entity_type), batches, fail_at, unique)
    IN  IF r.raised THEN [ok |-> FALSE, db |-> database]
        ELSE [ok |-> TRUE, db |-> r.db]

\* a threshold that waits until the main buffer is over the batch size
batch_full_over(batches) == Len(batches["main"]) > batch_size

\* "if len(current_batches['main']) >= self.batch_size"
batch_full(batches) == Len(batches["main"]) >= batch_size

\* any(current_batches.values())
AnyBatch(batches) == \E k \in BatchKeys : batches[k] # <<>>

(***************************************************************************)
(* State.                                                                  *)
(***************************************************************************)
\* whether the table behind the plain "ON CONFLICT DO NOTHING" branch carries
\* a unique constraint on its key: the DDL is not part of the sources, the
\* specification calls these "tables with no natural uniqueness constraint"
SchemaChoices == BOOLEAN

VARIABLES
    state_file,        \* data/state/ingestion_state.json
    backups,           \* newest snapshot in data/state/backups (backups[-1])
    db,                \* committed rows of the destination tables
    oa_unique,         \* the schema gives works_open_access a unique key
    temp,              \* names of the files in data/temp
    pc,                \* position of the driver process
    mode,              \* "etl": ETLManager.run, "cli": streaming_downloader.main
    runs,              \* process starts so far
    faults,            \* collaborator faults so far
    result,            \* what the driver returned
    ei,                \* index into entity_types of the entity being driven
    files,             \* process_entity: the names list_s3_files returned
    fi,                \* process_entity: index of the current file
    li,                \* process_file: line_number of the next line
    current_batches,   \* process_file: the accumulation buffers
    errors,            \* process_file: the error counter
    records_processed, \* process_file: rows counted as loaded
    flush_failed,      \* observed: a load_batches of this file returned False
    eof_flush,         \* observed: outcome of this file's end-of-file flush
    bad_lines,         \* observed: lines of this file that failed to parse or normalize
    saved_current,     \* observed: save_state of this file: "no", "written" or "lost"
    crashed_at_mark,   \* observed: files whose run died between process_file and the mark
    run_failed,        \* observed: files that failed in this run
    enumerated,        \* observed: entity types listed in this run
    failed_entities,   \* observed: entity types whose process_entity returned False
    backup_dir,        \* data/state/backups as sorted(os.listdir) sees it
    now,               \* datetime.now() in whole seconds
    op,                \* StateManager: the mutator being executed
    incoming,          \* _save_state: its state argument
    prior,             \* observed: what the mutator's _load_state returned
    crashed,           \* observed: the save the process died in
    observed,          \* observed: what the last reader of the checkpoint got
    procs,             \* two processes on one checkpoint: the mutator each is in
    performed,         \* observed: the mutator calls that have returned
    bucket,            \* stdout of `aws s3 ls s3://openalex/data/<entity_type>/`
    ret,               \* enumerator called on its own: what it returned
    dl,                \* download_file called on its own: its locals
    call               \* a method of StreamingProcessor or StateManager called on
                       \* its own: its arguments, its locals and what it returned

vars ==
    <<state_file, backups, db, oa_unique, temp, pc, mode, runs, faults, result,
      ei, files, fi, li, current_batches, errors, records_processed,
      flush_failed, eof_flush, bad_lines, saved_current, crashed_at_mark,
      run_failed, enumerated, failed_entities,
      backup_dir, now, op, incoming, prior, crashed, observed, procs, performed,
      bucket, ret, dl, call>>

\* the variables of the enumerator and of the fetcher called on their own
unitVars == <<bucket, ret, dl, call>>

\* the variables of the checkpoint store taken step by step
storeVars ==
    <<backup_dir, now, op, incoming, prior, crashed, observed, procs, performed,
      unitVars>>

\* the variables of the processes that share one checkpoint
peerVars == <<procs, performed>>

\* no mutator is being executed
NoOp == [name |-> "none", e |-> "", path |-> NoFile, message |-> 0, backup |-> "none"]
\* the process did not die in a save
NoCrash ==
    [in_save |-> FALSE, backup |-> "none", prior |-> InitialState,
     incoming |-> InitialState]
\* nobody has read the checkpoint
NoRead == [by |-> "none", at |-> "none", saw |-> "none"]
\* the enumerator has not been called
NoFolder == "None"
NoRet == [folder |-> NoFolder, files |-> <<>>, ok |-> <<>>, error |-> "none"]
\* download_file has not been called
NoDownload ==
    [entity_type |-> "", name |-> "", max_retries |-> 0, attempt |-> 0, tried |-> <<>>,
     slept |-> <<>>, temp_file |-> "absent", result |-> "none"]
\* no method has been called on its own
NoCall == [name |-> "none"]
\* a process that is in no mutator and has called none
IdleProc == [pc |-> "idle", op |-> NoOp, incoming |-> InitialState, calls |-> 0]

StoreIdle ==
    /\ backup_dir = <<>>
    /\ now = 0
    /\ op = NoOp
    /\ incoming = InitialState
    /\ prior = InitialState
    /\ crashed = NoCrash
    /\ observed = NoRead
    /\ procs = [e \in Entities |-> IdleProc]
    /\ performed = {}

UnitIdle ==
    /\ bucket = <<>>
    /\ ret = NoRet
    /\ dl = NoDownload
    /\ call = NoCall

disk == <<state_file, backups>>
fileLocals == <<li, current_batches, errors, records_processed, flush_failed,
                eof_flush, bad_lines>>
runObserved == <<run_failed, enumerated, failed_entities>>

\* what a load of the checkpoint returns now
Persisted == _load_state(state_file, backups).state

CompletedFiles(e) == Range(Persisted.entities[e].completed_files)

CurEntity == entity_types[ei]
CurName == files[fi]
CurPath == full_path(latest_folder, CurName)

Init ==
    /\ state_file = AbsentFile
    /\ backups = AbsentFile
    /\ db = EmptyDb
    /\ oa_unique \in SchemaChoices
    /\ temp = {}
    /\ pc = "idle"
    /\ mode = "none"
    /\ runs = 0
    /\ faults = 0
    /\ result = "none"
    /\ ei = 0
    /\ files = <<>>
    /\ fi = 0
    /\ li = 0
    /\ current_batches = EmptyBatches
    /\ errors = 0
    /\ records_processed = 0
    /\ flush_failed = FALSE
    /\ eof_flush = "none"
    /\ bad_lines = 0
    /\ saved_current = "no"
    /\ crashed_at_mark = {}
    /\ run_failed = {}
    /\ enumerated = {}
    /\ failed_entities = {}
    /\ StoreIdle
    /\ UnitIdle

\* a process_file that carries on from where the previous call stood
ResetFileLocals_stale == UNCHANGED fileLocals

\* the locals of process_file at its entry
ResetFileLocals ==
    /\ li' = 1
    /\ current_batches' = EmptyBatches
    /\ errors' = 0
    /\ records_processed' = 0
    /\ flush_failed' = FALSE
    /\ eof_flush' = "none"
    /\ bad_lines' = 0

\* the locals of a driver at its start
ClearLocals ==
    /\ files' = <<>>
    /\ fi' = 0
    /\ li' = 0
    /\ current_batches' = EmptyBatches
    /\ errors' = 0
    /\ records_processed' = 0
    /\ flush_failed' = FALSE
    /\ eof_flush' = "none"
    /\ bad_lines' = 0
    /\ saved_current' = "no"
    /\ run_failed' = {}
    /\ enumerated' = {}
    /\ failed_entities' = {}

\* outcomes of a checkpoint write that the environment may still produce
SaveOutcomes == {"ok", "torn"} \cup (IF faults < MaxFaults THEN {"ioerror"} ELSE {})

FaultCost(o) == IF o = "ioerror" THEN 1 ELSE 0

(***************************************************************************)
(* Source enumerator and the drivers.                                      *)
(***************************************************************************)
\* a listing that forgets to consult the checkpoint
list_s3_files_unfiltered(sf, bk, entity_type, ls_ok) ==
    IF ls_ok THEN S3Files(entity_type) ELSE <<>>

\* the names of the newest partition that the checkpoint does not report
\* complete; [] when either `aws s3 ls` fails
list_s3_files(sf, bk, entity_type, ls_ok) ==
    LET pending(name) ==
            ~is_file_processed(sf, bk, entity_type, full_path(latest_folder, name))
    IN  IF ls_ok THEN SelectSeq(S3Files(entity_type), pending) ELSE <<>>

\* ETLManager.run: the first entity type whose summary status is not
\* 'completed', 0-based index 0 when there is none
start_idx(sf, bk) ==
    LET summary == get_state_summary(sf, bk)
        open == {i \in 1..Len(entity_types) :
                    ~(summary[entity_types[i]].present
                      /\ summary[entity_types[i]].status = "completed")}
    IN  IF open = {} THEN 1 ELSE CHOOSE i \in open : \A j \in open : i <= j

\* the process is gone: kill, power loss
Dies == pc' = "idle" /\ mode' = "none" /\ result' = "none" /\ ei' = 0 /\ ClearLocals

\* a driver that only logs the failed entity type, whatever the mode
EntityFails_logged ==
    /\ failed_entities' = failed_entities \cup {CurEntity}
    /\ pc' = "entity"
    /\ result' = result
    /\ ei' = ei + 1

\* process_entity returned False: ETLManager.run returns False at once,
\* streaming_downloader.main logs it and goes to the next entity type
EntityFails ==
    /\ failed_entities' = failed_entities \cup {CurEntity}
    /\ IF mode = "etl"
       THEN pc' = "done" /\ result' = "failure" /\ ei' = ei
       ELSE pc' = "entity" /\ result' = result /\ ei' = ei + 1

\* a process_entity that logs the failed file and goes on to the next one
FileFails_continue ==
    /\ run_failed' = run_failed \cup {<<CurEntity, CurPath>>}
    /\ pc' = "file"
    /\ fi' = fi + 1
    /\ UNCHANGED <<result, ei, enumerated, failed_entities>>

\* the download or the callback failed: process_entity returns False
FileFails ==
    /\ run_failed' = run_failed \cup {<<CurEntity, CurPath>>}
    /\ EntityFails
    /\ UNCHANGED <<fi, enumerated>>

\* python -m scripts.etl.run_streaming_etl
StartETL ==
    /\ pc \in {"idle", "done"}
    /\ runs < MaxRuns
    /\ LET l == _load_state(state_file, backups)
       IN  /\ state_file' = l.state_file
           /\ backups' = l.backups
           /\ ClearLocals
           /\ result' = "none"
           /\ mode' = "etl"
           /\ ei' = start_idx(state_file, backups)
    /\ pc' = "entity"
    /\ runs' = runs + 1
    /\ UNCHANGED <<db, oa_unique, temp, faults, crashed_at_mark>>
    /\ UNCHANGED storeVars

\* python -m scripts.etl.download.streaming_downloader --all
StartCLI ==
    /\ pc \in {"idle", "done"}
    /\ runs < MaxRuns
    /\ ClearLocals
    /\ result' = "none"
    /\ mode' = "cli"
    /\ ei' = 1
    /\ pc' = "entity"
    /\ runs' = runs + 1
    /\ UNCHANGED <<disk, db, oa_unique, temp, faults, crashed_at_mark>>
    /\ UNCHANGED storeVars

\* the loop over the entity types is exhausted
FinishRun ==
    /\ pc = "entity"
    /\ ei > Len(entity_types)
    /\ pc' = "done"
    /\ result' = "success"
    /\ UNCHANGED <<disk, db, oa_unique, temp, mode, runs, faults, ei, files, fi,
                   fileLocals, saved_current, crashed_at_mark, runObserved>>
    /\ UNCHANGED storeVars

\* process_entity: "already completed. Skipping."
SkipEntity ==
    /\ pc = "entity"
    /\ ei <= Len(entity_types)
    /\ is_entity_completed(state_file, backups, CurEntity)
    /\ state_file' = _load_state(state_file, backups).state_file
    /\ backups' = _load_state(state_file, backups).backups
    /\ ei' = ei + 1
    /\ UNCHANGED <<db, oa_unique, temp, pc, mode, runs, faults, result, files, fi,
                   fileLocals, saved_current, crashed_at_mark, runObserved>>
    /\ UNCHANGED storeVars

\* process_entity: list_s3_files, "No files found" when it is empty
ListFiles ==
    /\ pc = "entity"
    /\ ei <= Len(entity_types)
    /\ ~is_entity_completed(state_file, backups, CurEntity)
    /\ state_file' = _load_state(state_file, backups).state_file
    /\ backups' = _load_state(state_file, backups).backups
    /\ \E ls_ok \in (IF faults < MaxFaults THEN BOOLEAN ELSE {TRUE}) :
          LET fs == list_s3_files(state_file, backups, CurEntity, ls_ok)
          IN  /\ faults' = faults + (IF ls_ok THEN 0 ELSE 1)
              /\ enumerated' = enumerated \cup {CurEntity}
              /\ IF fs = <<>>
                 THEN EntityFails /\ UNCHANGED <<files, fi>>
                 ELSE /\ files' = fs
                      /\ fi' = 1
                      /\ pc' = "file"
                      /\ UNCHANGED <<result, ei, failed_entities>>
    /\ UNCHANGED <<db, oa_unique, temp, mode, runs, fileLocals, saved_current,
                   crashed_at_mark, run_failed>>
    /\ UNCHANGED storeVars

\* process_entity: save_state(entity_type, file_info['full_path'])
SaveCurrent ==
    /\ pc = "file"
    /\ fi <= Len(files)
    /\ \E o \in SaveOutcomes :
          LET w == save_state(state_file, backups, CurEntity, CurPath, "in_progress", o)
          IN  /\ state_file' = w.state_file
              /\ backups' = w.backups
              /\ faults' = faults + FaultCost(o)
              /\ IF o = "torn" THEN Dies
                 ELSE /\ pc' = "download"
                      /\ saved_current' = IF o = "ok" THEN "written" ELSE "lost"
                      /\ UNCHANGED <<mode, result, ei, files, fi, fileLocals, runObserved>>
    /\ UNCHANGED <<db, oa_unique, temp, runs, crashed_at_mark>>
    /\ UNCHANGED storeVars

\* download_file, and for a driver without callback the cleanup that follows
Download ==
    /\ pc = "download"
    /\ \E got \in (IF faults < MaxFaults THEN BOOLEAN ELSE {TRUE}) :
          /\ faults' = faults + (IF got THEN 0 ELSE 1)
          /\ IF got
             THEN /\ UNCHANGED <<result, ei, runObserved>>
                  /\ IF mode = "etl"
                     THEN /\ temp' = temp \cup {CurName}
                          /\ pc' = "process"
                          /\ ResetFileLocals
                          /\ UNCHANGED fi
                     ELSE /\ temp' = temp \ {CurName}
                          /\ pc' = "file"
                          /\ fi' = fi + 1
                          /\ UNCHANGED fileLocals
             ELSE /\ temp' = temp \ {CurName}
                  /\ FileFails
                  /\ UNCHANGED fileLocals
    /\ UNCHANGED <<disk, db, oa_unique, mode, runs, files, saved_current,
                   crashed_at_mark>>
    /\ UNCHANGED storeVars

(***************************************************************************)
(* process_file, one line at a time.                                       *)
(***************************************************************************)
\* the database calls of one flush that the environment may still fail
FailPoints(entity_type, batches) ==
    IF faults < MaxFaults
    THEN 0..(NStatements(table_mapping(entity_type), batches) + 1)
    ELSE {0}


\* one iteration of "for line_number, line in enumerate(f, 1)"
ProcessLine ==
    /\ pc = "process"
    /\ li <= Len(FileLines(CurName))
    /\ LET line == FileLines(CurName)[li]
           parsed == line.kind # "badjson"
           pd == processor(CurEntity, line)
           collected == IF parsed /\ pd.ok
                        THEN _collect_batches(CurEntity, pd.data, current_batches)
                        ELSE current_batches
       IN  /\ bad_lines' = bad_lines + (IF parsed /\ pd.ok THEN 0 ELSE 1)
           /\ IF ~parsed
              THEN \* except json.JSONDecodeError
                   /\ errors' = errors + 1
                   /\ UNCHANGED <<db, faults, current_batches, records_processed,
                                  flush_failed, eof_flush>>
                   /\ IF errors + 1 >= max_errors
                      THEN FileFails /\ UNCHANGED li
                      ELSE /\ li' = li + 1
                           /\ UNCHANGED <<pc, result, ei, fi, runObserved>>
              ELSE IF batch_full(collected)
              THEN \* the threshold flush
                   \E fail_at \in FailPoints(CurEntity, collected) :
                      LET r == load_batches(CurEntity, db, collected, fail_at, oa_unique)
                          errs == IF r.ok THEN errors ELSE errors + 1
                      IN  /\ db' = r.db
                          /\ faults' = faults + (IF fail_at = 0 THEN 0 ELSE 1)
                          /\ errors' = errs
                          /\ flush_failed' = (flush_failed \/ ~r.ok)
                          /\ UNCHANGED eof_flush
                          /\ IF ~r.ok /\ errs >= max_errors
                             THEN /\ FileFails
                                  /\ current_batches' = collected
                                  /\ UNCHANGED <<li, records_processed>>
                             ELSE /\ records_processed' =
                                        records_processed + Len(collected["main"])
                                  /\ current_batches' = EmptyBatches
                                  /\ li' = li + 1
                                  /\ UNCHANGED <<pc, result, ei, fi, runObserved>>
              ELSE /\ current_batches' = collected
                   /\ li' = li + 1
                   /\ UNCHANGED <<db, faults, errors, records_processed, flush_failed,
                                  eof_flush, pc, result, ei, fi, runObserved>>
    /\ UNCHANGED <<disk, oa_unique, temp, mode, runs, files, saved_current,
                   crashed_at_mark>>
    /\ UNCHANGED storeVars

\* after the last line: "Load any remaining records", return errors < max_errors
ProcessEOF ==
    /\ pc = "process"
    /\ li > Len(FileLines(CurName))
    /\ IF AnyBatch(current_batches)
       THEN \E fail_at \in FailPoints(CurEntity, current_batches) :
               LET r == load_batches(CurEntity, db, current_batches, fail_at, oa_unique)
               IN  /\ db' = r.db
                   /\ faults' = faults + (IF fail_at = 0 THEN 0 ELSE 1)
                   /\ flush_failed' = (flush_failed \/ ~r.ok)
                   /\ eof_flush' = IF r.ok THEN "ok" ELSE "failed"
                   /\ IF ~r.ok
                      THEN FileFails /\ UNCHANGED records_processed
                      ELSE /\ records_processed' =
                                 records_processed + Len(current_batches["main"])
                           /\ IF errors < max_errors
                              THEN /\ pc' = "mark"
                                   /\ UNCHANGED <<result, ei, fi, runObserved>>
                              ELSE FileFails
       ELSE /\ UNCHANGED <<db, faults, flush_failed, eof_flush, records_processed>>
            /\ IF errors < max_errors
               THEN /\ pc' = "mark"
                    /\ UNCHANGED <<result, ei, fi, runObserved>>
               ELSE FileFails
    /\ UNCHANGED <<disk, oa_unique, temp, mode, runs, files, li, current_batches,
                   errors, bad_lines, saved_current, crashed_at_mark>>
    /\ UNCHANGED storeVars

\* process_entity after the callback returned True: mark_file_complete,
\* then cleanup_temp_file
MarkFile ==
    /\ pc = "mark"
    /\ \E o \in SaveOutcomes :
          LET w == mark_file_complete(state_file, backups, CurEntity, CurPath, o)
          IN  /\ state_file' = w.state_file
              /\ backups' = w.backups
              /\ faults' = faults + FaultCost(o)
              /\ IF o = "torn" THEN Dies /\ UNCHANGED temp
                 ELSE /\ temp' = temp \ {CurName}
                      /\ fi' = fi + 1
                      /\ pc' = "file"
                      /\ saved_current' = "no"
                      /\ UNCHANGED <<mode, result, ei, files, fileLocals, runObserved>>
    /\ UNCHANGED <<db, oa_unique, runs, crashed_at_mark>>
    /\ UNCHANGED storeVars

\* process_entity after the last file: mark_entity_complete, return True
MarkEntity ==
    /\ pc = "file"
    /\ fi > Len(files)
    /\ \E o \in SaveOutcomes :
          LET w == mark_entity_complete(state_file, backups, CurEntity, o)
          IN  /\ state_file' = w.state_file
              /\ backups' = w.backups
              /\ faults' = faults + FaultCost(o)
              /\ IF o = "torn" THEN Dies
                 ELSE /\ ei' = ei + 1
                      /\ pc' = "entity"
                      /\ UNCHANGED <<mode, result, files, fi, fileLocals, saved_current,
                                     runObserved>>
    /\ UNCHANGED <<db, oa_unique, temp, runs, crashed_at_mark>>
    /\ UNCHANGED storeVars

\* the process is killed between two steps; an open transaction is lost
Crash ==
    /\ pc \in {"entity", "file", "download", "process", "mark"}
    /\ crashed_at_mark' = IF pc = "mark"
                          THEN crashed_at_mark \cup {<<CurEntity, CurPath>>}
                          ELSE crashed_at_mark
    /\ Dies
    /\ UNCHANGED <<disk, db, oa_unique, temp, runs, faults>>
    /\ UNCHANGED storeVars

\* SIGINT or SIGTERM reaches the process of ETLManager: signal_handler sets
\* self.running = False, closes the database connection (an open transaction
\* is lost) and calls sys.exit(0); SystemExit ends the run where it stands
signal_handler ==
    /\ mode = "etl"
    /\ pc \in {"entity", "file", "download", "process", "mark"}
    /\ pc' = "done"
    /\ result' = "shutdown"
    /\ ei' = 0
    /\ ClearLocals
    /\ UNCHANGED <<disk, db, oa_unique, temp, mode, runs, faults, crashed_at_mark>>
    /\ UNCHANGED storeVars

Next ==
    \/ StartETL
    \/ StartCLI
    \/ FinishRun
    \/ SkipEntity
    \/ ListFiles
    \/ SaveCurrent
    \/ Download
    \/ ProcessLine
    \/ ProcessEOF
    \/ MarkFile
    \/ MarkEntity
    \/ Crash
    \/ signal_handler

Spec == Init /\ [][Next]_vars

(***************************************************************************)
(* load_batches on its own: one batch flushed, then flushed again, into an *)
(* empty destination.                                                      *)
(***************************************************************************)
\* most records buffered when the flush is called
MaxBatchLen == 3

SeqsUpTo(S, n) == UNION {[1..k -> S] : k \in 0..n}

\* parsed records: two identifiers, two versions of their columns
Records == {Rec(i, v) : i \in 1..2, v \in 1..2}

RECURSIVE BatchesOf(_, _, _)
\* the buffers after the records were normalized and collected in order
BatchesOf(entity_type, lines, batches) ==
    IF lines = <<>> THEN batches
    ELSE BatchesOf(entity_type, Tail(lines),
                   _collect_batches(entity_type, processor(entity_type, Head(lines)).data,
                                    batches))

\* the buffers process_file can hand to load_batches for an entity type
BatchInputs(entity_type) ==
    {BatchesOf(entity_type, lines, EmptyBatches) :
        lines \in SeqsUpTo(Records, MaxBatchLen)}

InitFlush ==
    /\ state_file = AbsentFile
    /\ backups = AbsentFile
    /\ db = EmptyDb
    /\ oa_unique \in SchemaChoices
    /\ temp = {}
    /\ pc = "flush0"
    /\ mode = "none"
    /\ runs = 0
    /\ faults = 0
    /\ result = "none"
    /\ ei \in 1..Len(entity_types)
    /\ files = <<>>
    /\ fi = 0
    /\ li = 0
    /\ current_batches \in BatchInputs(entity_types[ei])
    /\ errors = 0
    /\ records_processed = 0
    /\ flush_failed = FALSE
    /\ eof_flush = "none"
    /\ bad_lines = 0
    /\ saved_current = "no"
    /\ crashed_at_mark = {}
    /\ run_failed = {}
    /\ enumerated = {}
    /\ failed_entities = {}
    /\ StoreIdle
    /\ UnitIdle

\* load_batches(entity_type, current_batches) on the empty destination
FlushFirst ==
    /\ pc = "flush0"
    /\ db' = load_batches(CurEntity, db, current_batches, 0, oa_unique).db
    /\ pc' = "flush1"
    /\ UNCHANGED <<disk, oa_unique, temp, mode, runs, faults, result, ei, files, fi,
                   fileLocals, saved_current, crashed_at_mark, runObserved>>
    /\ UNCHANGED storeVars

\* the same call again, on what the first left
FlushAgain ==
    /\ pc = "flush1"
    /\ db' = load_batches(CurEntity, db, current_batches, 0, oa_unique).db
    /\ pc' = "flush2"
    /\ UNCHANGED <<disk, oa_unique, temp, mode, runs, faults, result, ei, files, fi,
                   fileLocals, saved_current, crashed_at_mark, runObserved>>
    /\ UNCHANGED storeVars

NextFlush ==
    \/ FlushFirst
    \/ FlushAgain

SpecFlush == InitFlush /\ [][NextFlush]_vars

(***************************************************************************)
(* Properties.                                                             *)
(***************************************************************************)
InFileLoop == pc \in {"file", "download", "process", "mark"}

Index(e) == CHOOSE i \in 1..Len(entity_types) : entity_types[i] = e

AllPaths ==
    {full_path(latest_folder, S3Files(e)[i]) : e \in Entities, i \in 1..2}

\* completed_files of e as a load after the step would return it
CompletedAfter(e) ==
    Range(_load_state(state_file', backups').state.entities[e].completed_files)

\* C1: a file whose key is in the persisted completed_files of its entity
\* type is not among the files the enumerator returned that are still to be
\* handled, is not the file being fetched and is not the file being flushed.
C1_CompletedNeverReprocessed ==
    InFileLoop =>
        \A i \in fi..Len(files) :
            full_path(latest_folder, files[i]) \notin CompletedFiles(CurEntity)

\* C1 witness: with a.gz complete, a run lists only b.gz and is loading it
C1_Witness ==
    /\ pc = "process"
    /\ CurEntity = "works"
    /\ files = <<"b.gz">>
    /\ full_path(latest_folder, "a.gz") \in CompletedFiles("works")
    /\ li > 1

C3_FlushErrorFailsFile ==
    pc = "mark" => ~flush_failed

\* the batches the flush of the current step is given
FlushedBatches ==
    IF li <= Len(FileLines(CurName))
    THEN LET pd == processor(CurEntity, FileLines(CurName)[li])
         IN  IF pd.ok THEN _collect_batches(CurEntity, pd.data, current_batches)
             ELSE current_batches
    ELSE current_batches

\* every buffered row of the flush is in its table after the step
AllTablesWritten ==
    LET tm == table_mapping(CurEntity)
    IN  \A i \in 1..Len(tm) :
            \A r \in Range(FlushedBatches[tm[i][1]]) : HasKey(db'[tm[i][2]], r.key)

\* C4: a flush in which a database call fails leaves every destination table
\* and the checkpoint as they were and reports failure; a step that changes
\* the destination is a flush without failure that wrote every table.
C4_FlushAtomic ==
    [][/\ (pc = "process" /\ faults' # faults) =>
              /\ db' = db
              /\ state_file' = state_file
              /\ backups' = backups
              /\ flush_failed'
       /\ db' # db =>
              /\ pc = "process"
              /\ faults' = faults
              /\ flush_failed' = flush_failed
              /\ state_file' = state_file
              /\ backups' = backups
              /\ AllTablesWritten]_vars

\* C4 witness: an end-of-file flush failed after an earlier flush of the
\* same file had committed; only the rows of the earlier flush are there
C4_Witness ==
    /\ eof_flush = "failed"
    /\ CurName = "b.gz"
    /\ HasKey(db["works"], <<2>>)
    /\ ~HasKey(db["works"], <<3>>)
    /\ ~HasKey(db["works_open_access"], <<3>>)

\* C5: for every batch, the destination after flushing it twice into an
\* empty destination equals the destination after flushing it once, in
\* every table of the entity type.
C5_FlushIdempotent ==
    pc = "flush2" =>
        db = load_batches(CurEntity, EmptyDb, current_batches, 0, oa_unique).db

RECURSIVE process_lines(_, _, _, _, _)
\* process_file without any failure: the destination it leaves
process_lines(entity_type, lines, batches, database, unique) ==
    IF lines = <<>>
    THEN IF AnyBatch(batches)
         THEN load_batches(entity_type, database, batches, 0, unique).db
         ELSE database
    ELSE LET pd == processor(entity_type, Head(lines))
             collected == IF Head(lines).kind # "badjson" /\ pd.ok
                          THEN _collect_batches(entity_type, pd.data, batches)
                          ELSE batches
         IN  IF Len(collected["main"]) >= batch_size
             THEN process_lines(entity_type, Tail(lines), EmptyBatches,
                                load_batches(entity_type, database, collected, 0, unique).db,
                                unique)
             ELSE process_lines(entity_type, Tail(lines), collected, database, unique)

RECURSIVE UninterruptedRun(_, _, _, _)
\* the destination after the named files were processed once each, in order
UninterruptedRun(entity_type, names, database, unique) ==
    IF names = <<>> THEN database
    ELSE UninterruptedRun(entity_type, Tail(names),
             process_lines(entity_type, FileLines(Head(names)), EmptyBatches,
                           database, unique),
             unique)

\* position of a file in the listing of its partition
ListingIndex(entity_type, name) ==
    CHOOSE i \in 1..Len(S3Files(entity_type)) : S3Files(entity_type)[i] = name

\* C6: when a run without collaborator faults has reprocessed and marked a
\* file whose earlier run died between the last flush and the mark, the
\* tables of the entity type hold exactly the rows an uninterrupted run up
\* to that file produces.
C6_CrashSafety ==
    (/\ pc = "file"
     /\ mode = "etl"
     /\ faults = 0
     /\ fi > 1
     /\ <<CurEntity, full_path(latest_folder, files[fi - 1])>> \in crashed_at_mark
     /\ full_path(latest_folder, files[fi - 1]) \in CompletedFiles(CurEntity))
    => LET k == ListingIndex(CurEntity, files[fi - 1])
           expected == UninterruptedRun(CurEntity, SubSeq(S3Files(CurEntity), 1, k),
                                        EmptyDb, oa_unique)
       IN  db = [t \in Tables |->
                    IF \E i \in 1..Len(table_mapping(CurEntity)) :
                           table_mapping(CurEntity)[i][2] = t
                    THEN expected[t] ELSE db[t]]

\* the files of the partition that the checkpoint does not report complete
Pending(e) ==
    LET open(name) == full_path(latest_folder, name) \notin CompletedFiles(e)
    IN  SelectSeq(S3Files(e), open)

\* C7: for an entity type that a run enumerates, the enumerator returns the
\* listed files that are not complete, in order, and none that is complete;
\* a complete file is never fetched or flushed; processing of a file starts
\* at its first line with empty buffers and zeroed counters, whatever an
\* earlier run did to it; the checkpoint holds no position inside a file.
C7_ResumeFromStart ==
    /\ [](InFileLoop =>
            \A i \in fi..Len(files) :
                full_path(latest_folder, files[i]) \notin CompletedFiles(CurEntity))
    /\ [](\A e \in Entities :
            DOMAIN Persisted.entities[e] =
                {"present", "status", "current_file", "completed_files"})
    /\ [][/\ (pc = "entity" /\ pc' = "file") => files' = Pending(CurEntity)
          /\ (pc = "download" /\ pc' = "process") =>
                /\ li' = 1
                /\ current_batches' = EmptyBatches
                /\ errors' = 0
                /\ records_processed' = 0]_vars

\* C7 witness: a.gz is complete, an earlier run committed the first flush of
\* b.gz and stopped; this run lists b.gz alone and is at its first line
C7_Witness ==
    /\ pc = "process"
    /\ CurEntity = "works"
    /\ files = <<"b.gz">>
    /\ li = 1
    /\ current_batches = EmptyBatches
    /\ full_path(latest_folder, "a.gz") \in CompletedFiles("works")
    /\ HasKey(db["works"], <<2>>)
    /\ ~HasKey(db["works"], <<3>>)

\* C8: a file in which the lines that failed to parse or to normalize reach
\* max_errors is not marked complete (process_file does not return True).
C8_ErrorCeiling ==
    pc = "mark" => bad_lines < max_errors

\* C9: a file that failed in this run is not in completed_files, its entity
\* type is not completed and none of its files is handled any more in the
\* run; the step in which a file fails removes nothing from completed_files.
C9_FileFailureStopsEntity ==
    /\ [](\A x \in run_failed :
            /\ x[2] \notin CompletedFiles(x[1])
            /\ ~is_entity_completed(state_file, backups, x[1])
            /\ x[1] \in failed_entities
            /\ InFileLoop => CurEntity # x[1])
    /\ [][run_failed' # run_failed =>
            \A e \in Entities : CompletedFiles(e) \subseteq CompletedAfter(e)]_vars

\* C9 witness: b.gz failed after a.gz had been marked complete
C9_Witness ==
    /\ <<"works", full_path(latest_folder, "b.gz")>> \in run_failed
    /\ full_path(latest_folder, "a.gz") \in CompletedFiles("works")
    /\ pc = "done"

\* an entity type after e in the processing order was listed in this run
LaterEnumerated(e) == \E e2 \in enumerated : Index(e2) > Index(e)

PersistedAfter == _load_state(state_file', backups').state

\* C11: the step that makes an entity type completed is taken only when
\* every file the enumerator returned in this run for that entity type is
\* in its persisted completed_files, in either driver.
C11_CompletedImpliesFilesComplete ==
    [][\A e \in Entities :
          (/\ Persisted.entities[e].status # "completed"
           /\ PersistedAfter.entities[e].status = "completed")
          => \A i \in 1..Len(files) :
                full_path(latest_folder, files[i]) \in CompletedAfter(e)]_vars

\* the driver stands at an entity type that the checkpoint reports completed
AtCompletedEntity ==
    /\ pc = "entity"
    /\ ei <= Len(entity_types)
    /\ Persisted.entities[CurEntity].status = "completed"

\* C12: an entity type is never inside the file loop while the checkpoint
\* reports it completed, and the step the driver takes at a completed
\* entity type lists, fetches, flushes and marks nothing, records no
\* failure and either moves on to the next entity type or is the end of
\* the process (killed, or shut down by a signal); a run never ends in
\* failure without a failed entity type.
C12_CompletedEntitySkipped ==
    /\ [](InFileLoop => Persisted.entities[CurEntity].status # "completed")
    /\ [](pc = "done" /\ result = "failure" => failed_entities # {})
    /\ [][AtCompletedEntity =>
            /\ enumerated' \subseteq enumerated
            /\ failed_entities' \subseteq failed_entities
            /\ db' = db
            /\ temp' = temp
            /\ PersistedAfter = Persisted
            /\ \/ pc' = "entity" /\ ei' = ei + 1 /\ files' = files
               \/ pc' = "idle"
               \/ pc' = "done" /\ result' = "shutdown"]_vars

\* C12 witness: ETLManager.run over a checkpoint with every entity type
\* completed ended in success without listing anything
C12_Witness ==
    /\ mode = "etl"
    /\ pc = "done"
    /\ result = "success"
    /\ enumerated = {}
    /\ \A e \in Entities : is_entity_completed(state_file, backups, e)

\* the lines of a file that parse and normalize
ValidRecords(name) ==
    LET ok(line) == line.kind = "rec"
    IN  Len(SelectSeq(FileLines(name), ok))

\* C15: the step that puts a processed file into completed_files adds that
\* file and nothing else, and raises total_processed of the entity type by
\* the number of valid records of the file.
C15_MarkAddsFileAndRecordCount ==
    [][(/\ pc = "mark"
        /\ CurPath \notin CompletedFiles(CurEntity)
        /\ CurPath \in CompletedAfter(CurEntity))
       => /\ CompletedAfter(CurEntity) = CompletedFiles(CurEntity) \cup {CurPath}
          /\ PersistedAfter.total_processed[CurEntity] =
                Persisted.total_processed[CurEntity] + ValidRecords(CurName)]_vars

(***************************************************************************)
(* The checkpoint store step by step: the backup directory, the two writes *)
(* of _save_state, the clock that names the backups, and the readers.      *)
(***************************************************************************)
\* mutator calls in one behaviour of the store
MaxOps == 2

\* "Keep only last 10 backups"
MaxBackups == 10

\* the variables of the pipeline that the store leaves alone
pipeVars ==
    <<backups, db, oa_unique, temp, mode, result, ei, files, fi, li,
      current_batches, errors, records_processed, flush_failed, eof_flush,
      bad_lines, saved_current, crashed_at_mark, run_failed, enumerated,
      failed_entities, unitVars>>

\* backups[-1] of sorted(os.listdir(backup_dir)), absent when there is none
Newest(dir) == IF dir = <<>> THEN AbsentFile ELSE dir[Len(dir)].file

\* open(backup_file, 'w') and what json.dump left in it, the directory kept
\* in the order of the file names
WriteBackup(dir, name, file) ==
    LET lower(b) == b.name < name
        upper(b) == b.name > name
    IN  SelectSeq(dir, lower) \o <<[name |-> name, file |-> file]>> \o SelectSeq(dir, upper)

\* for old_backup in backups[:-10]: os.remove
Rotate(dir) ==
    IF Len(dir) > MaxBackups
    THEN SubSeq(dir, Len(dir) - MaxBackups + 1, Len(dir))
    ELSE dir

\* outcome "ioerror": open raises, nothing is written; "partial": the write
\* raises IOError after the file was truncated; both are logged and swallowed
_backup_state(dir, state, name, outcome) ==
    CASE outcome = "ok" -> Rotate(WriteBackup(dir, name, Json(state)))
      [] outcome = "partial" -> Rotate(WriteBackup(dir, name, CorruptFile))
      [] OTHER -> Rotate(dir)

\* _load_state on the directory: it reads backups[-1] only, and where it
\* creates the initial state it saves it, backup first
LoadState(sf, dir, name) ==
    LET l == _load_state(sf, Newest(dir))
        created == \/ sf.kind = "absent"
                   \/ sf.kind = "corrupt" /\ Newest(dir).kind # "json"
    IN  [state |-> l.state,
         state_file |-> l.state_file,
         backup_dir |-> IF created THEN _backup_state(dir, InitialState, name, "ok")
                        ELSE dir]

\* what a load of the checkpoint returns now
StorePersisted == LoadState(state_file, backup_dir, now).state

\* the entity type and the file keys the store is called with
StoreEntities == {entity_types[1]}
StorePaths(e) == {full_path(latest_folder, S3Files(e)[1])}

\* `backup` is observed: how the _backup_state of this call went
Mutator(name, e, path) ==
    [name |-> name, e |-> e, path |-> path, message |-> 0, backup |-> "pending"]

\* the error messages the store is called with
ErrorMessages == {1, 2}

\* log_error(entity_type, error_message)
LogError(e, error_message) ==
    [Mutator("log_error", e, NoFile) EXCEPT !.message = error_message]

\* the mutators of StateManager and their arguments
StoreOps ==
    UNION {{Mutator("save_state", e, path) : path \in StorePaths(e)}
           \cup {Mutator("mark_file_complete", e, path) : path \in StorePaths(e)}
           \cup {Mutator("mark_entity_complete", e, NoFile),
                 Mutator("reset_entity", e, NoFile),
                 LogError(e, 1)} : e \in StoreEntities}

\* the state a mutator hands to _save_state
Update(o, state) ==
    CASE o.name = "save_state" -> save_state_update(state, o.e, o.path, "in_progress")
      [] o.name = "mark_file_complete" -> mark_file_complete_update(state, o.e, o.path)
      [] o.name = "mark_entity_complete" -> mark_entity_complete_update(state, o.e)
      [] o.name = "log_error" -> log_error_update(state, o.e, o.message, now)
      [] OTHER -> reset_entity_update(state, o.e)

\* the faults a write may still meet
WriteOutcomes(faulty) ==
    {"ok"} \cup (IF faulty /\ faults < MaxFaults THEN {"ioerror", "partial"} ELSE {})

InSave == pc \in {"backup", "primary", "writing"}

\* what open() and json.dump raise when a write fails
WriteError == "IOError"

\* a _save_state and a _backup_state without an except clause
Handled_nothing(exc) == FALSE

\* "except IOError as e: logging.error(...)" of _backup_state and _save_state
Handled(exc) == exc = "IOError"

\* a mutator up to its call of _save_state: state = self._load_state(), then
\* the update of the dict
CallMutator(ops, limit) ==
    /\ pc = "idle"
    /\ runs < limit
    /\ \E o \in ops :
          LET l == LoadState(state_file, backup_dir, now)
          IN  /\ op' = o
              /\ prior' = l.state
              /\ incoming' = Update(o, l.state)
              /\ state_file' = l.state_file
              /\ backup_dir' = l.backup_dir
    /\ pc' = "backup"
    /\ runs' = runs + 1
    /\ crashed' = NoCrash
    /\ observed' = NoRead
    /\ UNCHANGED <<now, faults, pipeVars, peerVars>>

\* _save_state: self._backup_state(state)
BackupStep(faulty) ==
    /\ pc = "backup"
    /\ \E o \in WriteOutcomes(faulty) :
          /\ backup_dir' = _backup_state(backup_dir, incoming, now, o)
          /\ faults' = faults + (IF o = "ok" THEN 0 ELSE 1)
          /\ op' = [op EXCEPT !.backup = IF o = "ok" THEN "ok" ELSE "failed"]
          /\ pc' = IF o = "ok" \/ Handled(WriteError) THEN "primary" ELSE "raised"
    /\ UNCHANGED <<state_file, runs, now, incoming, prior, crashed, observed,
                   pipeVars, peerVars>>

\* the mutator returns
Returns ==
    /\ pc' = "idle"
    /\ op' = NoOp
    /\ incoming' = InitialState
    /\ prior' = InitialState

\* the exception of a failed write leaves _save_state: logged and swallowed
\* where an except clause names it, passed on to the mutator's caller elsewhere
Fails ==
    IF Handled(WriteError) THEN Returns
    ELSE pc' = "raised" /\ UNCHANGED <<op, incoming, prior>>

\* _save_state: open(self.state_file, 'w') truncates the primary
OpenPrimary(faulty) ==
    /\ pc = "primary"
    /\ \E o \in WriteOutcomes(faulty) \ {"partial"} :
          /\ faults' = faults + (IF o = "ok" THEN 0 ELSE 1)
          /\ IF o = "ok"
             THEN /\ state_file' = CorruptFile
                  /\ pc' = "writing"
                  /\ UNCHANGED <<op, incoming, prior>>
             ELSE /\ state_file' = state_file
                  /\ Fails
    /\ UNCHANGED <<backup_dir, runs, now, crashed, observed, pipeVars, peerVars>>

\* what the primary holds when json.dump and close are through: the document,
\* unless another writer put a different document there in between
Dumped ==
    IF state_file.kind = "json" /\ state_file.doc # incoming
    THEN {Json(incoming), CorruptFile}
    ELSE {Json(incoming)}

\* _save_state: json.dump(state, f, indent=2) and the close of the file
WritePrimary(faulty) ==
    /\ pc = "writing"
    /\ \E o \in WriteOutcomes(faulty) \ {"ioerror"} :
          /\ faults' = faults + (IF o = "ok" THEN 0 ELSE 1)
          /\ IF o = "ok"
             THEN state_file' \in Dumped /\ Returns
             ELSE state_file' = state_file /\ Fails
    /\ UNCHANGED <<backup_dir, runs, now, crashed, observed, pipeVars, peerVars>>

\* the process dies inside _save_state; in _backup_state it may leave a
\* truncated backup behind
CrashStore ==
    /\ InSave
    /\ IF pc = "backup"
       THEN \E torn \in BOOLEAN :
               backup_dir' = IF torn THEN WriteBackup(backup_dir, now, CorruptFile)
                             ELSE backup_dir
       ELSE backup_dir' = backup_dir
    /\ crashed' = [in_save |-> TRUE, backup |-> op.backup, prior |-> prior,
                   incoming |-> incoming]
    /\ Returns
    /\ UNCHANGED <<state_file, runs, now, faults, observed, pipeVars, peerVars>>

\* the clock reaches the next second; a second in which no backup was named
\* is not told apart from the one before
Tick ==
    /\ pc = "idle"
    /\ backup_dir # <<>>
    /\ backup_dir[Len(backup_dir)].name = now
    /\ now' = now + 1
    /\ UNCHANGED <<state_file, pc, runs, faults, backup_dir, op, incoming, prior,
                   crashed, observed, pipeVars, peerVars>>

\* how a document that a reader got relates to the save in progress
Saw(doc) ==
    IF doc = prior THEN "before"
    ELSE IF doc = incoming THEN "after"
    ELSE "other"

\* ETLMonitor.get_etl_state in the monitoring process: json.load of the
\* primary, {} when that raises
MonitorRead ==
    /\ InSave
    /\ observed' = [by |-> "process", at |-> pc,
                    saw |-> IF state_file.kind = "json" THEN Saw(state_file.doc)
                            ELSE "empty"]
    /\ UNCHANGED <<state_file, pc, runs, faults, backup_dir, now, op, incoming,
                   prior, crashed, pipeVars, peerVars>>

\* the monitor thread of ETLManager: state_manager.get_state_summary(),
\* which is a _load_state with everything that does
MonitorThread ==
    /\ LET l == LoadState(state_file, backup_dir, now)
       IN  /\ observed' = IF InSave
                          THEN [by |-> "thread", at |-> pc, saw |-> Saw(l.state)]
                          ELSE observed
           /\ state_file' = l.state_file
           /\ backup_dir' = l.backup_dir
    /\ UNCHANGED <<pc, runs, faults, now, op, incoming, prior, crashed, pipeVars, peerVars>>

InitStore ==
    /\ state_file = AbsentFile
    /\ backups = AbsentFile
    /\ db = EmptyDb
    /\ oa_unique = FALSE
    /\ temp = {}
    /\ pc = "idle"
    /\ mode = "none"
    /\ runs = 0
    /\ faults = 0
    /\ result = "none"
    /\ ei = 0
    /\ files = <<>>
    /\ fi = 0
    /\ li = 0
    /\ current_batches = EmptyBatches
    /\ errors = 0
    /\ records_processed = 0
    /\ flush_failed = FALSE
    /\ eof_flush = "none"
    /\ bad_lines = 0
    /\ saved_current = "no"
    /\ crashed_at_mark = {}
    /\ run_failed = {}
    /\ enumerated = {}
    /\ failed_entities = {}
    /\ StoreIdle
    /\ UnitIdle

NextStore ==
    \/ CallMutator(StoreOps, MaxOps)
    \/ BackupStep(TRUE)
    \/ OpenPrimary(TRUE)
    \/ WritePrimary(TRUE)
    \/ CrashStore
    \/ Tick
    \/ MonitorRead
    \/ MonitorThread

SpecStore == InitStore /\ [][NextStore]_vars

\* what a load of the checkpoint returns after the step
StorePersistedAfter == LoadState(state_file', backup_dir', now').state

StoreCompleted(state, e) == Range(state.entities[e].completed_files)

\* C13: no step of the store, of a crash or of a recovery takes a file key
\* out of the completed_files that a load returns.
C13_CompletedFilesOnlyGrow ==
    [][\A e \in Entities :
          StoreCompleted(StorePersisted, e) \subseteq StoreCompleted(StorePersistedAfter, e)]_vars

\* position of a status in not_started, in_progress, completed; an entity
\* without status reads as not_started
StatusRank(status) ==
    CASE status = "completed" -> 2
      [] status = "in_progress" -> 1
      [] OTHER -> 0

\* C14: no step of the store, of a crash or of a recovery moves the status
\* that a load returns for an entity type backwards.
C14_StatusNeverRegresses ==
    [][\A e \in Entities :
          StatusRank(StorePersisted.entities[e].status)
             <= StatusRank(StorePersistedAfter.entities[e].status)]_vars

\* C16: when mark_file_complete hands a state to _save_state, a second
\* mark_file_complete with the same arguments on that state changes neither
\* completed_files nor total_processed.
C16_MarkIdempotent ==
    [][(pc = "idle" /\ pc' = "backup" /\ op'.name = "mark_file_complete")
       => LET once == incoming'
              twice == mark_file_complete_update(once, op'.e, op'.path)
          IN  /\ twice.entities[op'.e].completed_files
                    = once.entities[op'.e].completed_files
              /\ twice.total_processed = once.total_processed]_vars

\* C17: between two calls of the store a load returns the primary's state
\* when it parses, the initial state when there is no primary, and for a
\* corrupt primary the most recent readable backup, the initial state only
\* when no backup is readable; what it returns is then the primary.
C17_LoadRecovers ==
    pc = "idle" =>
        LET l == LoadState(state_file, backup_dir, now)
            readable(b) == b.file.kind = "json"
            good == SelectSeq(backup_dir, readable)
            described ==
                IF state_file.kind = "json" THEN state_file.doc
                ELSE IF state_file.kind = "absent" \/ good = <<>> THEN InitialState
                ELSE good[Len(good)].file.doc
        IN  /\ l.state = described
            /\ l.state_file = Json(l.state)

\* C18: while _save_state overwrites the primary, the newest backup is the
\* complete incoming state; after the process died in a save a load returns
\* the state the mutator had loaded or the state it was saving.
C18_CrashInSave ==
    /\ pc = "writing" => Newest(backup_dir) = Json(incoming)
    /\ crashed.in_save => StorePersisted \in {crashed.prior, crashed.incoming}

\* C20: a reader that reads the checkpoint while a save is in progress gets
\* the complete state before the save or the complete state after it.
C20_ReaderSeesCompleteState ==
    observed.by # "none" => observed.saw \in {"before", "after"}

(***************************************************************************)
(* Backup rotation: the same mutator called again and again, no faults.    *)
(***************************************************************************)
\* the N+5 saves of the rotation scenario
RotationSaves == MaxBackups + 5

\* every call raises total_processed by one, which tells the saves apart
RotationOps ==
    UNION {{Mutator("mark_file_complete", e, path) : path \in StorePaths(e)} :
              e \in StoreEntities}

NextRotation ==
    \/ CallMutator(RotationOps, RotationSaves)
    \/ BackupStep(FALSE)
    \/ OpenPrimary(FALSE)
    \/ WritePrimary(FALSE)
    \/ Tick

SpecRotation == InitStore /\ [][NextRotation]_vars

\* the ordinal of the save whose state a backup holds
SaveNumber(b) == b.file.doc.total_processed[entity_types[1]]

\* C19: after any save at most MaxBackups backups remain, and after
\* MaxBackups + 5 saves exactly MaxBackups remain, those of the MaxBackups
\* most recent saves.
C19_BackupRotation ==
    /\ pc = "idle" => Len(backup_dir) <= MaxBackups
    /\ (pc = "idle" /\ runs = RotationSaves) =>
          /\ Len(backup_dir) = MaxBackups
          /\ \A i \in 1..MaxBackups :
                /\ backup_dir[i].file.kind = "json"
                /\ SaveNumber(backup_dir[i]) = RotationSaves - MaxBackups + i

(***************************************************************************)
(* The readers and the failure paths of the store.                         *)
(***************************************************************************)
\* C21: a get_state_summary of the monitor thread leaves the primary
\* checkpoint file and every backup snapshot as they were: it creates,
\* overwrites and deletes nothing.
C21_MonitorReadOnly ==
    [][MonitorThread => (state_file' = state_file /\ backup_dir' = backup_dir)]_vars

ProcOps(e) ==
    {Mutator("mark_file_complete", e, path) : path \in StorePaths(e)}
    \cup {Mutator("mark_entity_complete", e, NoFile)}

\* a mutator of the process of e up to its call of _save_state:
\* state = self._load_state(), then the update of the dict
ProcLoad(e) ==
    /\ procs[e].pc = "idle"
    /\ procs[e].calls < MaxOps
    /\ \E o \in ProcOps(e) :
          LET l == LoadState(state_file, backup_dir, now)
          IN  /\ procs' = [procs EXCEPT ![e] =
                              [pc |-> "save", op |-> o,
                               incoming |-> Update(o, l.state),
                               calls |-> @.calls + 1]]
              /\ state_file' = l.state_file
              /\ backup_dir' = l.backup_dir
    /\ UNCHANGED <<pc, runs, faults, now, op, incoming, prior, crashed, observed,
                   performed, pipeVars>>

\* _save_state of that mutator, no fault: the backup, then the whole
\* document over the primary; the mutator returns
ProcSave(e) ==
    /\ procs[e].pc = "save"
    /\ backup_dir' = _backup_state(backup_dir, procs[e].incoming, now, "ok")
    /\ state_file' = Json(procs[e].incoming)
    /\ procs' = [procs EXCEPT ![e] = [IdleProc EXCEPT !.calls = procs[e].calls]]
    /\ performed' = performed \cup {procs[e].op}
    /\ UNCHANGED <<pc, runs, faults, now, op, incoming, prior, crashed, observed,
                   pipeVars>>

NextPeers ==
    \/ \E e \in Entities : ProcLoad(e)
    \/ \E e \in Entities : ProcSave(e)
    \/ Tick

SpecPeers == InitStore /\ [][NextPeers]_vars

\* C22: every mark_file_complete and mark_entity_complete that a process
\* has performed is in the checkpoint that a load returns, whatever the
\* other process has loaded and saved in between.
C22_NoLostUpdate ==
    \A o \in performed :
        /\ o.name = "mark_file_complete" =>
               o.path \in StoreCompleted(StorePersisted, o.e)
        /\ o.name = "mark_entity_complete" =>
               StorePersisted.entities[o.e].status = "completed"

(***************************************************************************)
(* The error log: log_error called again and again, no faults.             *)
(***************************************************************************)
\* calls of log_error in one behaviour: past the limit of the log
ErrorLogCalls == error_log_limit + 2

ErrorOps == {LogError(e, m) : e \in StoreEntities, m \in ErrorMessages}

NextErrorLog ==
    \/ CallMutator(ErrorOps, ErrorLogCalls)
    \/ BackupStep(FALSE)
    \/ OpenPrimary(FALSE)
    \/ WritePrimary(FALSE)
    \/ Tick

SpecErrorLog == InitStore /\ [][NextErrorLog]_vars

\* C30: the error_log that log_error saves has at most error_log_limit
\* entries, ends with the entry just logged, and before it holds the most
\* recent entries of the log it loaded, in their order: only the oldest
\* entries are dropped, and only when the limit is exceeded. The log that a
\* load returns never exceeds the limit.
C30_ErrorLogBounded ==
    /\ [](Len(StorePersisted.error_log) <= error_log_limit)
    /\ [][(pc = "idle" /\ pc' = "backup" /\ op'.name = "log_error") =>
             LET old == prior'.error_log
                 new == incoming'.error_log
                 k == Len(new) - 1
             IN  /\ Len(new) <= error_log_limit
                 /\ Len(new) = (IF Len(old) < error_log_limit THEN Len(old) + 1
                                ELSE error_log_limit)
                 /\ new[Len(new)] = [timestamp |-> now, entity_type |-> op'.e,
                                     error_message |-> op'.message]
                 /\ SubSeq(new, 1, k) = SubSeq(old, Len(old) - k + 1, Len(old))]_vars

\* more calls than the limit have been saved and the log is full
C30_Witness ==
    /\ pc = "idle"
    /\ runs > error_log_limit
    /\ Len(StorePersisted.error_log) = error_log_limit
    /\ StorePersisted.error_log[error_log_limit].error_message = 2
    /\ StorePersisted.error_log[1].error_message = 1

(***************************************************************************)
(* The enumerator called on its own: get_latest_date_folder and            *)
(* list_s3_files over what `aws s3 ls` prints.                             *)
(***************************************************************************)
\* most lines in the listing of an entity type's prefix
MaxListing == 3

\* everything but pc and the variables of the unit calls
restVars ==
    <<state_file, backups, db, oa_unique, temp, mode, runs, faults, result, ei,
      files, fi, fileLocals, saved_current, crashed_at_mark, runObserved,
      backup_dir, now, op, incoming, prior, crashed, observed, procs, performed>>

\* partition names; the third and fourth are not zero-padded
PartitionNames ==
    {"updated_date=2024-01-01/", latest_folder, "updated_date=2024-10-01/",
     "updated_date=2024-9-01/"}

\* a line of `aws s3 ls`: its last token, whether the line ends with '/',
\* whether it contains 'updated_date='
Pre(name) == [name |-> name, slash |-> TRUE, dated |-> TRUE]
OtherPre == [name |-> "merged_ids/", slash |-> TRUE, dated |-> FALSE]
ManifestLine == [name |-> "manifest", slash |-> FALSE, dated |-> FALSE]

BucketLines == {Pre(n) : n \in PartitionNames} \cup {OtherPre, ManifestLine}

\* listings: up to MaxListing different lines in any order
Listings ==
    {l \in SeqsUpTo(BucketLines, MaxListing) :
        \A i, j \in 1..Len(l) : i # j => l[i] # l[j]}

\* the characters of a partition name from the first one in which two of
\* the names differ
Chars(name) ==
    CASE name = "updated_date=2024-01-01/" -> <<"0", "1", "-">>
      [] name = "updated_date=2024-02-01/" -> <<"0", "2", "-">>
      [] name = "updated_date=2024-10-01/" -> <<"1", "0", "-">>
      [] OTHER -> <<"9", "-">>

\* ord(c)
Ord(c) ==
    CASE c = "-" -> 45
      [] c = "0" -> 48
      [] c = "1" -> 49
      [] c = "2" -> 50
      [] OTHER -> 57

RECURSIVE StrLess(_, _)
\* a < b for str: by the first character that differs, a proper prefix first
StrLess(a, b) ==
    IF b = <<>> THEN FALSE
    ELSE IF a = <<>> THEN TRUE
    ELSE IF Head(a) # Head(b) THEN Ord(Head(a)) < Ord(Head(b))
    ELSE StrLess(Tail(a), Tail(b))

\* the month a date parser would read from the name
MonthOf(name) ==
    CASE name = "updated_date=2024-01-01/" -> 1
      [] name = "updated_date=2024-02-01/" -> 2
      [] name = "updated_date=2024-10-01/" -> 10
      [] OTHER -> 9

\* [line.split()[-1] for line in stdout if line ends with '/' and
\* 'updated_date=' in line]
date_folders(stdout) ==
    LET keep(line) == line.slash /\ line.dated
        kept == SelectSeq(stdout, keep)
    IN  [i \in 1..Len(kept) |-> kept[i].name]

\* a get_latest_date_folder that parses the dates and takes the latest
get_latest_date_folder_by_date(stdout, ok) ==
    LET names == Range(date_folders(stdout))
    IN  IF ~ok \/ names = {} THEN NoFolder
        ELSE CHOOSE n \in names : \A m \in names : MonthOf(m) <= MonthOf(n)

\* sorted(date_folders)[-1]; None when there is none or when aws fails
\* (CalledProcessError)
get_latest_date_folder(stdout, ok) ==
    LET names == Range(date_folders(stdout))
    IN  IF ~ok \/ names = {} THEN NoFolder
        ELSE CHOOSE n \in names :
                 \A m \in names : m = n \/ StrLess(Chars(m), Chars(n))

\* `aws s3 ls` of a partition, in listing order
PartitionListing(folder) ==
    CASE folder = latest_folder -> <<"a.gz", "manifest", "b.gz">>
      [] folder = "updated_date=2024-01-01/" -> <<"a.gz">>
      [] folder = "updated_date=2024-10-01/" -> <<"manifest">>
      [] OTHER -> <<"b.gz", "a.gz">>

\* line.strip().endswith('.gz')
IsGz(name) == name \in {"a.gz", "b.gz", "c.gz", "d.gz"}

file_info(folder, name) ==
    [folder |-> folder, name |-> name, full_path |-> full_path(folder, name)]

\* a list_s3_files that takes the file name for the idempotency key
list_s3_files_by_name(sf, bk, entity_type, stdout, ok) ==
    LET folder == get_latest_date_folder(stdout, ok[1])
        gz == SelectSeq(PartitionListing(folder), IsGz)
        done == {k[2] : k \in Range(_load_state(sf, bk).state.entities[entity_type].completed_files)}
        pending(name) == name \notin done
    IN  IF folder = NoFolder \/ ~ok[2] THEN <<>>
        ELSE LET kept == SelectSeq(gz, pending)
             IN  [i \in 1..Len(kept) |-> file_info(folder, kept[i])]

\* list_s3_files over the two listings; ok[1], ok[2]: the two aws calls
\* exit with status 0
list_s3_files_of(sf, bk, entity_type, stdout, ok) ==
    LET folder == get_latest_date_folder(stdout, ok[1])
        gz == SelectSeq(PartitionListing(folder), IsGz)
        pending(name) ==
            ~is_file_processed(sf, bk, entity_type, full_path(folder, name))
    IN  IF folder = NoFolder \/ ~ok[2] THEN <<>>
        ELSE LET kept == SelectSeq(gz, pending)
             IN  [i \in 1..Len(kept) |-> file_info(folder, kept[i])]

\* completed_files the checkpoint may hold for the entity type
CompletedChoices ==
    {<<>>,
     <<full_path("updated_date=2024-01-01/", "a.gz")>>,
     <<full_path(latest_folder, "a.gz")>>,
     <<full_path(latest_folder, "a.gz"), full_path(latest_folder, "b.gz")>>,
     <<full_path("updated_date=2024-9-01/", "b.gz"),
       full_path("updated_date=2024-9-01/", "a.gz")>>}

CheckpointWith(e, completed) ==
    [InitialState EXCEPT !.entities[e] =
        [present |-> TRUE, status |-> "in_progress", current_file |-> NoFile,
         completed_files |-> completed]]

InitEnum ==
    /\ bucket \in Listings
    /\ \E c \in CompletedChoices :
          state_file = Json(CheckpointWith(entity_types[1], c))
    /\ backups = state_file
    /\ pc = "enum"
    /\ ret = NoRet
    /\ dl = NoDownload
    /\ call = NoCall
    /\ StoreIdle
    /\ db = EmptyDb
    /\ oa_unique = FALSE
    /\ temp = {}
    /\ mode = "none"
    /\ runs = 0
    /\ faults = 0
    /\ result = "none"
    /\ ei = 1
    /\ files = <<>>
    /\ fi = 0
    /\ li = 0
    /\ current_batches = EmptyBatches
    /\ errors = 0
    /\ records_processed = 0
    /\ flush_failed = FALSE
    /\ eof_flush = "none"
    /\ bad_lines = 0
    /\ saved_current = "no"
    /\ crashed_at_mark = {}
    /\ run_failed = {}
    /\ enumerated = {}
    /\ failed_entities = {}

\* what subprocess.run(..., check=True) raises when aws exits with an error
ListError == "CalledProcessError"

\* "except subprocess.CalledProcessError" of get_latest_date_folder and of
\* list_s3_files
Caught(exc) == exc = "CalledProcessError"

\* list_s3_files(entity_type), which begins with get_latest_date_folder
CallListFiles ==
    /\ pc = "enum"
    /\ \E ok \in [1..2 -> BOOLEAN] :
          LET folder == get_latest_date_folder(bucket, ok[1])
              failed == ~ok[1] \/ (folder # NoFolder /\ ~ok[2])
          IN  ret' = [folder |-> folder,
                      files |-> list_s3_files_of(state_file, backups, CurEntity,
                                                 bucket, ok),
                      ok |-> ok,
                      error |-> IF failed /\ ~Caught(ListError) THEN ListError
                                ELSE "none"]
    /\ pc' = "listed"
    /\ UNCHANGED <<bucket, dl, call, restVars>>

NextEnum == CallListFiles

SpecEnum == InitEnum /\ [][NextEnum]_vars

\* the partition names among the lines of the listing
ListedPartitions ==
    {bucket[i].name : i \in {j \in 1..Len(bucket) : bucket[j].slash /\ bucket[j].dated}}

\* C24: when the listing succeeds and names a partition, the enumerator's
\* current partition is the listed name that is greatest as a string, of
\* updated_date=2024-01-01/ and updated_date=2024-02-01/ the second, and
\* every file it returns is a file of that partition.
C24_LatestPartition ==
    pc = "listed" =>
        /\ (ret.ok[1] /\ ListedPartitions # {}) =>
               /\ ret.folder \in ListedPartitions
               /\ \A m \in ListedPartitions :
                      m = ret.folder \/ StrLess(Chars(m), Chars(ret.folder))
        /\ (ret.ok[1] /\ ListedPartitions = {"updated_date=2024-01-01/",
                                              "updated_date=2024-02-01/"}) =>
               ret.folder = "updated_date=2024-02-01/"
        /\ \A i \in 1..Len(ret.files) :
               /\ ret.files[i].folder = ret.folder
               /\ ret.files[i].name \in Range(PartitionListing(ret.folder))
               /\ ret.files[i].full_path = <<ret.folder, ret.files[i].name>>

\* a listing in which the greatest string is not the latest date: September
\* written 9 is selected although October is listed, and its files are
\* returned
C24_Witness ==
    /\ pc = "listed"
    /\ {"updated_date=2024-9-01/", "updated_date=2024-10-01/"} \subseteq ListedPartitions
    /\ ret.folder = "updated_date=2024-9-01/"
    /\ ret.files # <<>>

\* C25: list_s3_files returns the .gz files listed in the current
\* partition whose key partition + file name is not in the persisted
\* completed_files, each once and in the order of the listing; it returns
\* the empty list, and raises nothing, when no partition is found, when a
\* listing fails and when every file is complete.
C25_ListPending ==
    pc = "listed" =>
        LET listing == PartitionListing(ret.folder)
            pos(name) == CHOOSE i \in 1..Len(listing) : listing[i] = name
            expected == {n \in Range(listing) :
                            /\ IsGz(n)
                            /\ full_path(ret.folder, n) \notin CompletedFiles(CurEntity)}
            names == {ret.files[i].name : i \in 1..Len(ret.files)}
        IN  /\ ret.error = "none"
            /\ (ret.folder = NoFolder \/ ~ret.ok[2]) => ret.files = <<>>
            /\ (ret.folder # NoFolder /\ ret.ok[2]) =>
                   /\ names = expected
                   /\ Len(ret.files) = Cardinality(expected)
                   /\ \A i, j \in 1..Len(ret.files) :
                          i < j => pos(ret.files[i].name) < pos(ret.files[j].name)
                   /\ expected = {} => ret.files = <<>>

\* a.gz of the current partition is complete, the listing has a.gz, a line
\* that is no .gz file and b.gz: only b.gz is returned
C25_Witness ==
    /\ pc = "listed"
    /\ ret.folder = latest_folder
    /\ ret.ok[2]
    /\ CompletedFiles(CurEntity) = {full_path(latest_folder, "a.gz")}
    /\ Len(ret.files) = 1
    /\ ret.files[1] = file_info(latest_folder, "b.gz")

(***************************************************************************)
(* The fetcher called on its own: download_file.                           *)
(***************************************************************************)
\* def download_file(self, entity_type, file_info, max_retries=3)
max_retries == 3

\* a backoff that does not grow
backoff_constant(attempt) == 1

\* time.sleep(2 ** attempt)
backoff(attempt) == 2 ^ attempt

\* what `aws s3 cp` may do: copy the file, fail leaving nothing new behind,
\* fail leaving a partial file at temp_file
CopyOutcomes == {"ok", "failed", "failed_partial"}

\* download_file is called for a file of an entity type, with max_retries
\* at its default or below; data/temp may hold a file of that name from an
\* earlier run
InitFetch ==
    /\ \E e \in Entities, i \in 1..2, n \in 1..max_retries,
          left \in {"absent", "stale"} :
          dl = [NoDownload EXCEPT !.entity_type = e, !.name = S3Files(e)[i],
                                  !.max_retries = n, !.temp_file = left]
    /\ pc = "fetch"
    /\ bucket = <<>>
    /\ ret = NoRet
    /\ call = NoCall
    /\ StoreIdle
    /\ state_file = AbsentFile
    /\ backups = AbsentFile
    /\ db = EmptyDb
    /\ oa_unique = FALSE
    /\ temp = {}
    /\ mode = "none"
    /\ runs = 0
    /\ faults = 0
    /\ result = "none"
    /\ ei = 0
    /\ files = <<>>
    /\ fi = 0
    /\ li = 0
    /\ current_batches = EmptyBatches
    /\ errors = 0
    /\ records_processed = 0
    /\ flush_failed = FALSE
    /\ eof_flush = "none"
    /\ bad_lines = 0
    /\ saved_current = "no"
    /\ crashed_at_mark = {}
    /\ run_failed = {}
    /\ enumerated = {}
    /\ failed_entities = {}

\* one iteration of "for attempt in range(max_retries)": the copy, and on
\* CalledProcessError the sleep or, at the last attempt, the removal of
\* temp_file and return None
Attempt ==
    /\ pc = "fetch"
    /\ dl.attempt < dl.max_retries
    /\ \E o \in CopyOutcomes :
          LET written == CASE o = "ok" -> "complete"
                           [] o = "failed_partial" -> "partial"
                           [] OTHER -> dl.temp_file
              tried == Append(dl.tried, o)
          IN  IF o = "ok"
              THEN /\ dl' = [dl EXCEPT !.tried = tried, !.temp_file = written,
                                       !.result = "temp_file"]
                   /\ pc' = "fetched"
              ELSE IF dl.attempt < dl.max_retries - 1
              THEN /\ dl' = [dl EXCEPT !.tried = tried, !.temp_file = written,
                                       !.slept = Append(@, backoff(dl.attempt)),
                                       !.attempt = @ + 1]
                   /\ pc' = "fetch"
              ELSE /\ dl' = [dl EXCEPT !.tried = tried, !.temp_file = "absent",
                                       !.result = "None"]
                   /\ pc' = "fetched"
    /\ UNCHANGED <<bucket, ret, call, restVars>>

NextFetch == Attempt

\* aws s3 cp ends, with success or with an error, and a sleep ends
SpecFetch == InitFetch /\ [][NextFetch]_vars /\ WF_vars(Attempt)

\* the copy attempts that failed
Failures == Len(SelectSeq(dl.tried, LAMBDA o : o # "ok"))

\* C26: download_file makes at most max_retries copies and returns; it
\* returns temp_file at the first copy that succeeds, has slept 2^attempt
\* seconds after every failed attempt but the last possible one, and after
\* max_retries failures has removed temp_file and returns None.
C26_FetchRetries ==
    /\ [](Len(dl.tried) <= dl.max_retries)
    /\ [](dl.result = "temp_file" =>
             /\ dl.tried[Len(dl.tried)] = "ok"
             /\ Failures = Len(dl.tried) - 1
             /\ dl.temp_file = "complete"
             /\ dl.slept = [i \in 1..Failures |-> 2 ^ (i - 1)])
    /\ [](dl.result = "None" =>
             /\ Failures = dl.max_retries
             /\ dl.temp_file = "absent"
             /\ dl.slept = [i \in 1..(dl.max_retries - 1) |-> 2 ^ (i - 1)])
    /\ [](dl.result = "none" =>
             /\ Failures = Len(dl.tried)
             /\ Failures < dl.max_retries
             /\ dl.slept = [i \in 1..Failures |-> 2 ^ (i - 1)])
    /\ <>(dl.result # "none")

\* every copy failed, one of them leaving a partial file: download_file has
\* returned None after sleeping 1 and 2 seconds and nothing is left
C26_Witness ==
    /\ pc = "fetched"
    /\ dl.result = "None"
    /\ dl.max_retries = max_retries
    /\ "failed_partial" \in Range(dl.tried)
    /\ dl.slept = <<1, 2>>
    /\ dl.temp_file = "absent"

(***************************************************************************)
(* Scratch files, shutdown and exit status of a run.                        *)
(***************************************************************************)
\* the file names process_entity has taken from its list so far
HandledFiles == {files[i] : i \in 1..(IF fi < Len(files) THEN fi ELSE Len(files))}

\* C27: at the step in which process_entity returns from its file loop,
\* whatever the outcome, data/temp holds no scratch file of a file it
\* handled in this call.
C27_NoScratchLeft ==
    [][(InFileLoop /\ pc' \in {"entity", "done"}) =>
          HandledFiles \cap temp' = {}]_vars

\* C28: the shutdown signal ends a run of ETLManager only between two
\* files or between two entity types: never while a file is being fetched,
\* while its lines are being buffered and flushed, or before it is marked.
C28_CooperativeShutdown ==
    [][(pc # "done" /\ pc' = "done" /\ result' = "shutdown") =>
          pc \in {"entity", "file"}]_vars

\* the exit status of run_streaming_etl: sys.exit(0 if success else 1) in
\* main, sys.exit(0) in signal_handler
exit_status ==
    CASE result = "success" -> 0
      [] result = "shutdown" -> 0
      [] OTHER -> 1

\* C29: when run_streaming_etl has ended, its exit status is 0 exactly when
\* the checkpoint has every entity type of the ordering completed, and it
\* is not 0 when an entity type failed in the run.
C29_ExitStatus ==
    (pc = "done" /\ mode = "etl") =>
        /\ exit_status = 0 <=>
               \A e \in Entities : Persisted.entities[e].status = "completed"
        /\ failed_entities # {} => exit_status # 0

(***************************************************************************)
(* An entity type whose files are all complete but which is not marked.    *)
(***************************************************************************)
\* C31: when a run comes to an entity type that is not marked completed
\* while every file of its partition is in completed_files, and the listing
\* does not fail, the run does not count the entity type as failed and the
\* checkpoint has it completed afterwards.
C31_EmptyPendingCompletes ==
    [][(/\ ListFiles
        /\ faults' = faults
        /\ \A i \in 1..Len(S3Files(CurEntity)) :
               full_path(latest_folder, S3Files(CurEntity)[i]) \in CompletedFiles(CurEntity))
       => /\ CurEntity \notin failed_entities'
          /\ is_entity_completed(state_file', backups', CurEntity)]_vars

(***************************************************************************)
(* Complete files and the rows of their records.                           *)
(***************************************************************************)
\* every row that the records of the file yield for a mapped table of the
\* entity type is in that table, by its key
RowsCommitted(e, name) ==
    \A i \in 1..Len(FileLines(name)) :
        LET pd == processor(e, FileLines(name)[i])
            rows == IF pd.ok THEN _collect_batches(e, pd.data, EmptyBatches)
                    ELSE EmptyBatches
        IN  \A j \in 1..Len(table_mapping(e)) :
                \A r \in Range(rows[table_mapping(e)[j][1]]) :
                    HasKey(db[table_mapping(e)[j][2]], r.key)

\* C32: for every file in completed_files, the rows of each of its records
\* that parsed and normalized are committed in the destination tables.
C32_CompleteFileCommitted ==
    \A e \in Entities :
        \A i \in 1..Len(S3Files(e)) :
            full_path(latest_folder, S3Files(e)[i]) \in CompletedFiles(e)
                => RowsCommitted(e, S3Files(e)[i])

RestIdle ==
    /\ state_file = AbsentFile
    /\ backups = AbsentFile
    /\ db = EmptyDb
    /\ temp = {}
    /\ mode = "none"
    /\ runs = 0
    /\ faults = 0
    /\ result = "none"
    /\ ei = 0
    /\ files = <<>>
    /\ fi = 0
    /\ li = 0
    /\ current_batches = EmptyBatches
    /\ errors = 0
    /\ records_processed = 0
    /\ flush_failed = FALSE
    /\ eof_flush = "none"
    /\ bad_lines = 0
    /\ saved_current = "no"
    /\ crashed_at_mark = {}
    /\ run_failed = {}
    /\ enumerated = {}
    /\ failed_entities = {}
    /\ StoreIdle
    /\ bucket = <<>>
    /\ ret = NoRet
    /\ dl = NoDownload

\* table_mapping of load_batches in full, for three of the entity types
table_suffix(entity_type) ==
    CASE entity_type = "works" ->
             [main |-> "works", ids |-> "works_ids",
              open_access |-> "works_open_access", authorships |-> "works_authorships",
              related_works |-> "works_related_works",
              referenced_works |-> "works_referenced_works",
              concepts |-> "works_concepts", counts_by_year |-> "works_counts_by_year"]
      [] entity_type = "authors" ->
             [main |-> "authors", ids |-> "authors_ids",
              counts_by_year |-> "authors_counts_by_year", concepts |-> "authors_concepts"]
      [] OTHER ->
             [main |-> "institutions", ids |-> "institutions_ids",
              geo |-> "institutions_geo",
              counts_by_year |-> "institutions_counts_by_year",
              associated_institutions |-> "institutions_associated_institutions"]

\* list(batches[batch_key][0].keys()): the keys of the dicts that the entity
\* processors build, the first ones and every one that load_batches names;
\* <<>> for a table no processor builds rows for
RowColumns(table) ==
    CASE table = "works" -> <<"id", "doi", "cited_by_count">>
      [] table = "works_ids" -> <<"work_id", "openalex", "doi">>
      [] table = "works_open_access" -> <<"work_id", "is_oa", "oa_status">>
      [] table = "works_authorships" -> <<"work_id", "author_id", "author_position">>
      [] table = "works_concepts" -> <<"work_id", "concept_id", "score">>
      [] table = "works_counts_by_year" -> <<"work_id", "year", "cited_by_count">>
      [] table = "authors" -> <<"id", "orcid", "works_count">>
      [] table = "authors_ids" -> <<"author_id", "openalex", "orcid">>
      [] table = "authors_counts_by_year" ->
             <<"author_id", "year", "works_count", "cited_by_count">>
      [] table = "authors_concepts" -> <<"author_id", "concept_id", "score">>
      [] table = "institutions" -> <<"id", "ror", "works_count">>
      [] table = "institutions_ids" -> <<"institution_id", "openalex", "ror">>
      [] table = "institutions_geo" -> <<"institution_id", "city", "country">>
      [] table = "institutions_counts_by_year" ->
             <<"institution_id", "year", "works_count", "cited_by_count">>
      [] table = "institutions_associated_institutions" ->
             <<"institution_id", "associated_institution_id", "relationship">>
      [] OTHER -> <<>>

\* an id column named after the entity type as it stands
id_col_plural(entity_type) == entity_type \o "_id"

\* f"{entity_type[:-1]}_id"
id_col(entity_type) == SubSeq(entity_type, 1, Len(entity_type) - 1) \o "_id"

\* the statement load_batches builds for a batch: the columns of its
\* ON CONFLICT target and of its SET list, in the order of `columns`
build_query(entity_type, batch_key, columns) ==
    LET except(cs) == SelectSeq(columns, LAMBDA col : col \notin cs)
        pk_columns ==
            except({"works_count", "cited_by_count", "score", "author_position",
                    "primary_author", "relationship"})
    IN  IF batch_key = "main"
        THEN [kind |-> "update", conflict |-> <<"id">>, set |-> except({"id"})]
        ELSE IF batch_key \in {"ids", "geo"}
        THEN [kind |-> "update", conflict |-> <<id_col(entity_type)>>,
              set |-> except({id_col(entity_type)})]
        ELSE IF batch_key \in {"counts_by_year", "authorships", "related_works",
                               "referenced_works", "concepts", "associated_institutions"}
        THEN [kind |-> "update", conflict |-> pk_columns,
              set |-> except(Range(pk_columns))]
        ELSE [kind |-> "nothing", conflict |-> <<>>, set |-> <<>>]

\* execute_values(cur, query, values) for one row: the statement is rejected
\* when a list of it is empty or names a column the table does not have;
\* DO UPDATE overwrites the SET columns of the row that agrees on the target;
\* DO NOTHING drops the row when a unique constraint of the table rejects it
run_query(existing, query, columns, row, violates) ==
    LET agrees(old) == \A col \in Range(query.conflict) : old[col] = row[col]
    IN  IF query.kind = "nothing"
        THEN [raised |-> FALSE,
              table |-> IF violates THEN existing ELSE Append(existing, row)]
        ELSE IF \/ query.set = <<>>
                \/ query.conflict = <<>>
                \/ ~(Range(query.conflict) \subseteq Range(columns))
        THEN [raised |-> TRUE, table |-> existing]
        ELSE IF \E i \in 1..Len(existing) : agrees(existing[i])
        THEN [raised |-> FALSE,
              table |-> [i \in 1..Len(existing) |->
                           IF agrees(existing[i])
                           THEN [col \in Range(columns) |->
                                    IF col \in Range(query.set) THEN row[col]
                                    ELSE existing[i][col]]
                           ELSE existing[i]]]
        ELSE [raised |-> FALSE, table |-> Append(existing, row)]

\* load_batches is given one row for one table of an entity type, every
\* column 1 or 2; the table is empty or holds one row; for DO NOTHING,
\* whether a unique constraint of the table rejects the row
InitQuery ==
    /\ RestIdle
    /\ oa_unique = FALSE
    /\ pc = "query"
    /\ \E entity_type \in {"works", "authors", "institutions"} :
         \E batch_key \in DOMAIN table_suffix(entity_type) :
           LET columns == RowColumns(table_suffix(entity_type)[batch_key])
               rows == [Range(columns) -> {1, 2}]
           IN  /\ columns # <<>>
               /\ \E row \in rows, existing \in {<<>>} \cup {<<old>> : old \in rows},
                     violates \in BOOLEAN :
                     /\ violates => existing # <<>>
                     /\ call = [name |-> "load_batches", entity_type |-> entity_type,
                                batch_key |-> batch_key,
                                table |-> table_suffix(entity_type)[batch_key],
                                columns |-> columns, row |-> row, existing |-> existing,
                                violates |-> violates,
                                query |-> [kind |-> "none", conflict |-> <<>>, set |-> <<>>],
                                raised |-> FALSE, after |-> existing]

\* "Construct upsert query based on batch type"
ConstructQuery ==
    /\ pc = "query"
    /\ call' = [call EXCEPT
                   !.query = build_query(call.entity_type, call.batch_key, call.columns)]
    /\ pc' = "built"
    /\ UNCHANGED <<bucket, ret, dl, restVars>>

\* "Execute batch insert"
ExecuteValues ==
    /\ pc = "built"
    /\ LET r == run_query(call.existing, call.query, call.columns, call.row,
                          call.violates)
       IN  call' = [call EXCEPT !.raised = r.raised, !.after = r.table]
    /\ pc' = "executed"
    /\ UNCHANGED <<bucket, ret, dl, restVars>>

NextQuery ==
    \/ ConstructQuery
    \/ ExecuteValues

SpecQuery == InitQuery /\ [][NextQuery]_vars

\* C34: the statement for a batch is chosen by the role of its table. Main
\* table: conflict on id, every other column overwritten. ids and geo
\* tables: conflict on <singular entity>_id, the rest overwritten.
\* Association tables: conflict on the columns that are not metric columns,
\* the metric columns overwritten. In these three the statement is accepted
\* and leaves the incoming row in place of the row that agrees with it on
\* the conflict columns, or adds it when there is none. Any other table:
\* plain insert, a rejected row dropped without an error.
C34_UpsertByRole ==
    pc = "executed" =>
        LET cols == Range(call.columns)
            q == call.query
            metric == {"works_count", "cited_by_count", "score", "author_position",
                       "primary_author", "relationship"}
            singular_id == CASE call.entity_type = "works" -> "work_id"
                             [] call.entity_type = "authors" -> "author_id"
                             [] OTHER -> "institution_id"
            same(old, key) == \A col \in key : old[col] = call.row[col]
            upsert(key) ==
                /\ q.kind = "update"
                /\ Range(q.conflict) = key
                /\ Range(q.set) = cols \ key
                /\ ~call.raised
                /\ IF \E i \in 1..Len(call.existing) : same(call.existing[i], key)
                   THEN call.after = <<call.row>>
                   ELSE call.after = Append(call.existing, call.row)
        IN  CASE call.batch_key = "main" -> upsert({"id"})
              [] call.batch_key \in {"ids", "geo"} -> upsert({singular_id})
              [] call.batch_key \in {"counts_by_year", "authorships", "related_works",
                                     "referenced_works", "concepts",
                                     "associated_institutions"} ->
                     upsert(cols \ metric) /\ Range(q.set) = cols \cap metric
              [] OTHER ->
                     /\ q = [kind |-> "nothing", conflict |-> <<>>, set |-> <<>>]
                     /\ ~call.raised
                     /\ call.after = IF call.violates THEN call.existing
                                     ELSE Append(call.existing, call.row)

\* C34 witness: institutions_geo holds a row of the institution; the flush
\* of a row with the same institution_id and another city has replaced it
C34_Witness ==
    /\ pc = "executed"
    /\ call.table = "institutions_geo"
    /\ call.existing # <<>>
    /\ call.existing[1]["institution_id"] = call.row["institution_id"]
    /\ call.existing[1]["city"] # call.row["city"]
    /\ call.after = <<call.row>>

(***************************************************************************)
(* _collect_batches on its own.                                            *)
(***************************************************************************)
\* a value of processed_data: a dict (one row) or a list of up to two dicts
RowSets ==
    LET rows == {Row(<<i>>, 1) : i \in 1..2}
    IN  {[is_list |-> FALSE, rows |-> <<r>>] : r \in rows}
        \cup {[is_list |-> TRUE, rows |-> rs] : rs \in SeqsUpTo(rows, 2)}

\* _collect_batches is given the result of a processor, over the data keys
\* that the mapping of the entity type names and one that no mapping names,
\* and buffers that are empty or hold a row each
InitCollect ==
    /\ RestIdle
    /\ oa_unique = FALSE
    /\ pc = "collect"
    /\ \E entity_type \in Entities :
         \E keys \in SUBSET ({entity_batch_mapping(entity_type)[i][2] :
                                 i \in 1..Len(entity_batch_mapping(entity_type))}
                             \cup {"works_biblio"}) :
           \E processed_data \in [keys -> RowSets],
              batches \in {EmptyBatches, [k \in BatchKeys |-> <<Row(<<3>>, 1)>>]} :
              call = [name |-> "_collect_batches", entity_type |-> entity_type,
                      processed_data |-> processed_data, batches |-> batches,
                      after |-> batches]

\* self._collect_batches(entity_type, processed_data, current_batches)
CollectBatches ==
    /\ pc = "collect"
    /\ call' = [call EXCEPT
                   !.after = _collect_batches(call.entity_type, call.processed_data,
                                              call.batches)]
    /\ pc' = "collected"
    /\ UNCHANGED <<bucket, ret, dl, restVars>>

NextCollect == CollectBatches

SpecCollect == InitCollect /\ [][NextCollect]_vars

\* C35: after _collect_batches, the buffer of every table whose name the
\* mapping of the entity type pairs with a data key of the record is the
\* buffer before followed by the rows of that row-set in their order, a
\* single row counting as a sequence of one; every other buffer is as it
\* was, so a row-set under a name that the mapping does not have changes
\* nothing.
C35_Distribution ==
    pc = "collected" =>
        LET m == entity_batch_mapping(call.entity_type)
            pd == call.processed_data
        IN  \A k \in BatchKeys :
                LET named == {i \in 1..Len(m) : m[i][1] = k /\ m[i][2] \in DOMAIN pd}
                    before == call.batches[k]
                    after == call.after[k]
                IN  IF named = {} THEN after = before
                    ELSE \A i \in named :
                            LET rows == pd[m[i][2]].rows
                            IN  /\ Len(after) = Len(before) + Len(rows)
                                /\ \A j \in 1..Len(before) : after[j] = before[j]
                                /\ \A j \in 1..Len(rows) : after[Len(before) + j] = rows[j]
                                /\ ~pd[m[i][2]].is_list => Len(rows) = 1

\* C35 witness: a works record with a list of two rows for counts_by_year, a
\* single main row and a row-set for works_biblio, which no mapping names;
\* the two rows follow the buffered one in order, the main row follows its
\* buffered one, the open_access buffer is as before
C35_Witness ==
    /\ pc = "collected"
    /\ call.entity_type = "works"
    /\ DOMAIN call.processed_data = {"works", "works_biblio", "works_counts_by_year"}
    /\ call.processed_data["works_counts_by_year"].rows = <<Row(<<2>>, 1), Row(<<1>>, 1)>>
    /\ call.after["counts_by_year"] = <<Row(<<3>>, 1), Row(<<2>>, 1), Row(<<1>>, 1)>>
    /\ Len(call.after["main"]) = 2
    /\ call.after["open_access"] = <<Row(<<3>>, 1)>>

(***************************************************************************)
(* Order of the entity types in a run of ETLManager.                       *)
(***************************************************************************)
\* C36: in a run of ETLManager, the step that lists an entity type, and
\* every step that saves, fetches, loads or marks a file of it, happens only
\* while the persisted checkpoint has every earlier entity type of the
\* order completed.
C36_EarlierCompleted ==
    [][(/\ mode = "etl"
        /\ (ListFiles \/ SaveCurrent \/ Download \/ ProcessLine \/ ProcessEOF \/ MarkFile))
       => \A j \in 1..(ei - 1) :
              Persisted.entities[entity_types[j]].status = "completed"]_vars

(***************************************************************************)
(* The mutators of one process called for two entity types.                *)
(***************************************************************************)
\* every mutator for every entity type, with the first file of its listing
FrameOps ==
    UNION {{Mutator("save_state", e, full_path(latest_folder, S3Files(e)[1])),
            Mutator("mark_file_complete", e, full_path(latest_folder, S3Files(e)[1])),
            Mutator("mark_entity_complete", e, NoFile),
            Mutator("reset_entity", e, NoFile),
            LogError(e, 1)} : e \in Entities}

\* one call more than in the store taken alone
NextFrame ==
    \/ CallMutator(FrameOps, MaxOps + 1)
    \/ BackupStep(TRUE)
    \/ OpenPrimary(TRUE)
    \/ WritePrimary(TRUE)
    \/ Tick

SpecFrame == InitStore /\ [][NextFrame]_vars

\* the calls around a reset: a file and the entity type are marked, the
\* entity type is reset
ResetOps ==
    UNION {{Mutator("mark_file_complete", e, full_path(latest_folder, S3Files(e)[1])),
            Mutator("mark_entity_complete", e, NoFile),
            Mutator("reset_entity", e, NoFile)} : e \in Entities}

NextReset ==
    \/ CallMutator(ResetOps, MaxOps + 1)
    \/ BackupStep(TRUE)
    \/ OpenPrimary(TRUE)
    \/ WritePrimary(TRUE)
    \/ Tick

SpecReset == InitStore /\ [][NextReset]_vars

\* the checkpoint after the step has nothing of entity type e: it is not
\* completed, none of its files is processed, its count is 0 and a listing
\* of its partition returns every file
ResetDone(e) ==
    LET sf == state_file'
        bk == Newest(backup_dir')
    IN  /\ ~is_entity_completed(sf, bk, e)
        /\ \A i \in 1..Len(S3Files(e)) :
               ~is_file_processed(sf, bk, e, full_path(latest_folder, S3Files(e)[i]))
        /\ StorePersistedAfter.total_processed[e] = 0
        /\ list_s3_files(sf, bk, e, TRUE) = S3Files(e)

C38_OtherEntitiesUntouched ==
    [][(/\ op.name \in {"save_state", "mark_file_complete", "mark_entity_complete",
                        "reset_entity"}
        /\ InSave
        /\ pc' = "idle")
       => /\ \A e \in Entities \ {op.e} :
                /\ StorePersistedAfter.entities[e] = prior.entities[e]
                /\ StorePersistedAfter.total_processed[e] = prior.total_processed[e]
          /\ StorePersistedAfter.error_log = prior.error_log]_vars

====
